---- MODULE Spec2Model ----
(***************************************************************************)
(* State-machine model of the local-first capture / synchronisation /      *)
(* caching services of the track-fittings tracker:                         *)
(*   TrackingService   (src/unnamed/part_007)                              *)
(*   InspectionService (src/unnamed/part_004)                              *)
(*   DashboardService  (src/src/services/DashboardService.js)              *)
(* JavaScript runs one handler at a time and yields only at an await, so   *)
(* every action below is the code between two awaits of one async call.    *)
(* A storage or network call takes effect and settles in one step whose    *)
(* outcome (ok / fault) is an input of the step.                           *)
(***************************************************************************)
EXTENDS Integers, Sequences, FiniteSets, TLC

\* ------------------------------------------------------------------ bounds
\* Runs with capture, sync cycles, clear, restart and import.
MaxEntries == 3       \* tracking ids generated by capture operations
MaxCycles == 2        \* syncPendingEntries calls per process lifetime
MaxInFlight == 2      \* capture calls in progress at the same time
MaxClears == 1        \* clearTrackingData calls per process lifetime
MaxRestarts == 1      \* process restarts
MaxImportLen == 2     \* entries in one importTrackingData call
\* Runs with capture and sync cycles only.
CycleEntries == 3
CycleRuns == 1
CycleInFlight == 1
\* Runs of InspectionService.
MaxSubmits == 2       \* submitInspection calls
MaxISyncs == 1        \* syncPendingInspections calls
HistorySubmits == 2    \* submitInspection calls on a stored history
FormSubmits == 1      \* submitInspection calls of the runs over every form
PortalSubmits == 1    \* submitInspection calls of the one-submission runs
PortalISyncs == 1     \* syncPendingInspections calls of the one-submission runs
\* Runs of DashboardService.
MaxDashCalls == 2     \* getDashboardData calls
MaxTicks == 2         \* clock advances
MaxDashClears == 1    \* clearCache calls
MaxDashThrows == 1   \* generateDashboardData invocations that throw
\* Runs of OfflineScreen.
MaxOfflineScans == 2        \* items of offline_scans when the screen mounts
MaxOfflineInspections == 1  \* items of offline_inspections when the screen mounts
MaxProbes == 1              \* checkNetworkStatus calls in flight
MaxPresses == 2             \* syncOfflineData calls
MaxOfflineClears == 2       \* presses of Clear Offline Data

MaxReportIds == 1       \* distinct report ids
MaxReportCalls == 4     \* cacheReport / getCachedReport / deleteReport calls
MaxReportRestarts == 1  \* restarts of the process holding ReportsService
SignalEntries == 2          \* captured entries in the runs with the online signal
SignalCycles == 1           \* syncPendingEntries calls in those runs
SignalClears == 1           \* presses of Clear Offline Data in those runs
\* Runs with a storage that rejects calls.
MaxFaults == 1        \* AsyncStorage calls that reject
FaultEntries == 3
FaultInFlight == 2
FaultOfflineScans == 1  \* items of offline_scans when the screen mounts on such a storage
FaultPresses == 1     \* syncOfflineData calls on such a storage
FaultClears == 1      \* presses of Clear Offline Data on such a storage
ListEntries == 2      \* captures beside getAllTrackingEntries calls
ListCalls == 1        \* getAllTrackingEntries calls

MaxScanEvents == 6    \* onBarCodeRead events

MaxLogins == 1        \* logins
MaxAuthTicks == 2     \* advances of the clock AuthService reads
MaxValidates == 2     \* validateToken calls
MaxLogouts == 1       \* logout calls
MaxRefreshes == 1     \* refreshToken calls
MaxUpdates == 1       \* updateProfile calls

Range(s) == {s[i] : i \in DOMAIN s}
Count(s, x) == Cardinality({i \in DOMAIN s : s[i] = x})
SeqsUpTo(S, n) == UNION {[1..k -> S] : k \in 1..n}

VARIABLES
  \* ---- the run
  lim,            \* the bounds of the run, set by the specification's initial state
  faultsLeft,     \* AsyncStorage calls that may still reject
  \* ---- AsyncStorage keys written by TrackingService
  storeEntries,   \* ids e for which key tracking_<e> is present
  storeMaster,    \* key tracking_master_list: [present, list]
  \* ---- TrackingService fields
  trackingCache,  \* this.trackingCache (keys of the Map)
  heap,           \* the array objects that were this.syncQueue at some time
  syncQueue,      \* this.syncQueue: index into heap of the current array
  \* ---- calls in progress
  nextId,         \* number of ids generateTrackingId has produced
  entryTimestamp, \* per id: the millisecond of its entry's timestamp, 0 before it has one
  cap,            \* per id: the capture call that created it
  cyc,            \* per cycle: a syncPendingEntries call
  clr,            \* the clearTrackingData call
  imp,            \* the importTrackingData call
  \* ---- environment and history
  restarts,       \* restarts so far
  pushed,         \* ids appended to the sync queue by a capture
  uploaded,       \* ids for which simulateServerSync resolved
  discarded,      \* ids that were pushed before a clearTrackingData emptied the queue
  pendingAtStop,  \* ids in the queue and not uploaded at the last restart
  \* ---- AsyncStorage keys written by InspectionService
  localInspections,   \* key localInspections: [present, list of [id, synced]]
  inspectionReports,  \* key inspectionReports: [present, list of report ids]
  \* ---- InspectionService calls in progress
  nextSub,        \* submitInspection calls made so far
  sub,            \* per call: a submitInspection call
  isync,          \* per call: a syncPendingInspections call
  \* ---- history of the two portals
  udmAcked,       \* inspection ids whose upload to the UDM portal succeeded
  tmsAcked,       \* inspection ids whose upload to the TMS portal succeeded
  rejected,       \* inspection ids an upload of which a portal rejected
  \* ---- DashboardService
  dashCache,      \* key dashboard_data: [present, data, timestamp]
  now,            \* Date.now()
  ticks,          \* clock advances so far
  call,           \* per call: a getDashboardData call
  computes,       \* generateDashboardData invocations so far
  dclears,        \* clearCache calls so far
  serial          \* no two calls overlapped, no clearCache ran, nothing rejected or threw

tVars == <<storeEntries, storeMaster, trackingCache, heap, syncQueue, nextId, entryTimestamp,
           cap, cyc, clr, imp, restarts, pushed, uploaded, discarded,
           pendingAtStop>>

iVars == <<localInspections, inspectionReports, nextSub, sub, isync,
           udmAcked, tmsAcked, rejected>>

dVars == <<dashCache, now, ticks, call, computes, dclears, serial>>

VARIABLES
  \* ---- the device and AsyncStorage keys read by OfflineScreen
  online,             \* the device can reach the network
  offlineScans,       \* key offline_scans: list of scan ids
  offlineInspections, \* key offline_inspections: list of inspection ids
  lastSync,           \* key lastSync is present
  \* ---- OfflineScreen state
  networkStatus,      \* useState(false), line 34: the published online signal
  syncStatus,         \* useState('idle'), line 27
  \* ---- calls in progress
  probes,             \* checkNetworkStatus calls whose fetch has not settled
  osync,              \* the syncOfflineData call
  presses,            \* syncOfflineData calls so far
  \* ---- history
  published,          \* a checkNetworkStatus call has set networkStatus
  tried,              \* offline items an upload call was made for
  \* ---- the offline data card and its Clear button
  offlineData,        \* useState, lines 28-32: the displayed counts [qrScans, inspections]
  oclear,             \* per call: a press of Clear Offline Data
  oload               \* the loadOfflineData call of the mount effect

oVars == <<online, offlineScans, offlineInspections, lastSync, networkStatus,
           syncStatus, probes, osync, presses, published, tried, offlineData, oclear, oload>>

VARIABLES
  \* ---- ReportsService
  reportCache,   \* this.reportCache, line 9: Map of report id -> report
  reportStore,   \* AsyncStorage keys report_<id>: the stored JSON text
  \* ---- calls in progress
  rcall,         \* cacheReport / getCachedReport / deleteReport calls
  rrestarts,     \* restarts so far
  \* ---- history
  settled        \* per id: what the last undisturbed cacheReport or
                 \* successful deleteReport established

VARIABLES
  \* ---- AsyncStorage keys of the session
  authToken,     \* key authToken: the stored token text, or NoToken
  userProfile,   \* key userProfile is present
  \* ---- the device
  clock,         \* Math.floor(Date.now() / 1000)
  aticks,        \* clock advances so far
  \* ---- calls in progress
  login,         \* LoginScreen.handleLogin
  vcall,         \* validateToken
  lcall,         \* logout
  rfcall,        \* refreshToken
  ucall          \* updateProfile

aVars == <<authToken, userProfile, clock, aticks, login, vcall, lcall, rfcall, ucall>>

VARIABLES
  \* ---- QRScannerScreen state
  scanning,      \* useState(true), line 18
  processing,    \* useState(false), line 20
  \* ---- what the user sees
  alert,         \* the alert on the screen: "none", "invalid" or "error"
  route,         \* the screen navigated to
  \* ---- calls in progress
  scanCall,      \* the onBarCodeRead call
  scanEvents     \* onBarCodeRead events so far

sVars == <<scanning, processing, alert, route, scanCall, scanEvents>>

VARIABLES
  listing        \* the getAllTrackingEntries call

lVars == <<listing>>

rVars == <<reportCache, reportStore, rcall, rrestarts, settled>>

vars == <<lim, faultsLeft, tVars, iVars, dVars, oVars, rVars, lVars, aVars, sVars>>

\* ------------------------------------------------ TrackingService: helpers

Ids == 1..lim.entries
Cycles == 1..lim.cycles

NoCall == [pc |-> "none", ml |-> <<>>, faulted |-> FALSE, ret |-> "none"]
IdleCycle == [pc |-> "idle", arr |-> 0, idx |-> 0, failed |-> <<>>, synced |-> 0,
              startQ |-> <<>>, outcomes |-> <<>>, clean |-> TRUE,
              result |-> [success |-> FALSE, synced |-> 0, failed |-> 0]]
IdleClear == [pc |-> "idle", ml |-> <<>>, idx |-> 0, success |-> FALSE, n |-> 0]
IdleImport == [pc |-> "idle", todo |-> <<>>, ml |-> <<>>, imported |-> 0, n |-> 0]

\* The contents of this.syncQueue.
Queue == heap[syncQueue]

\* AsyncStorage.setItem / removeItem / getItem reject at most MaxFaults times.
Outcome(ok) == ok \/ faultsLeft > 0
CountFault(ok) == faultsLeft' = IF ok THEN faultsLeft ELSE faultsLeft - 1

\* getMasterTrackingList: the stored list, [] when the key is absent, and []
\* when the read rejects (the catch returns []).
getMasterTrackingList(ok) ==
  IF ok /\ storeMaster.present THEN storeMaster.list ELSE <<>>

\* storeTrackingEntry line 186: setItem(`tracking_${entry.id}`, ...).
PutEntryKey(e, ok) == IF ok THEN storeEntries \cup {e} ELSE storeEntries

\* storeTrackingEntry lines 190-191: masterList.push(entry.id); setItem(list).
PutMasterList(ml, e, ok) ==
  IF ok THEN [present |-> TRUE, list |-> Append(ml, e)] ELSE storeMaster

\* Arrays that neither this.syncQueue nor a running loop refers to are garbage;
\* their contents are dropped.
Live(h, q, cs) ==
  [i \in DOMAIN h |->
     IF i = q \/ \E c \in Cycles : cs[c].pc = "await" /\ cs[c].arr = i
     THEN h[i] ELSE <<>>]

\* Every step of a call other than cycle c marks c as interleaved.
Touch(c) == [k \in Cycles |->
               IF k # c /\ cyc[k].pc = "await" THEN [cyc[k] EXCEPT !.clean = FALSE]
               ELSE cyc[k]]
TouchAll == Touch(0)

\* -------------------------------------------- TrackingService: capture calls

\* Capture calls that have started and not returned.
InFlight == Cardinality({e \in Ids : cap[e].pc \notin {"none", "done", "gone"}})

\* new Date() of lines 15, 48 and 82: the millisecond of the previous capture
\* when both fall in one millisecond, or a later one.
DateNow ==
  LET last == IF nextId = 0 THEN 0 ELSE entryTimestamp[nextId]
  IN IF lim.sameMs /\ last > 0 THEN {last, last + 1} ELSE {last + 1}

\* trackScan lines 9-24: the entry gets its id, then the call awaits
\* getDeviceInfo() and getNetworkStatus().
trackScan ==
  /\ nextId < lim.entries
  /\ InFlight < lim.inFlight
  /\ nextId' = nextId + 1
  /\ \E ms \in DateNow : entryTimestamp' = [entryTimestamp EXCEPT ![nextId + 1] = ms]
  /\ cap' = [cap EXCEPT ![nextId + 1] = [NoCall EXCEPT !.pc = "meta"]]
  /\ cyc' = TouchAll
  /\ UNCHANGED <<sVars, aVars, lVars, rVars, oVars, iVars, dVars, lim, storeEntries, storeMaster, trackingCache, heap, syncQueue, clr, imp,
                 faultsLeft, restarts, pushed, uploaded, discarded, pendingAtStop>>

\* trackScan lines 26-30 after the awaits: trackingCache.set, then
\* storeTrackingEntry is entered and its first setItem is issued.
TrackScanCache(e) ==
  /\ cap[e].pc = "meta"
  /\ trackingCache' = trackingCache \cup {e}
  /\ cap' = [cap EXCEPT ![e].pc = "setEntry"]
  /\ cyc' = TouchAll
  /\ UNCHANGED <<sVars, aVars, lVars, rVars, oVars, iVars, dVars, lim, storeEntries, storeMaster, heap, syncQueue, nextId, entryTimestamp, clr, imp,
                 faultsLeft, restarts, pushed, uploaded, discarded, pendingAtStop>>

\* trackInspection lines 42-65: no await precedes trackingCache.set, so the
\* id, the cache entry and the call of storeTrackingEntry happen in one step.
trackInspection ==
  /\ nextId < lim.entries
  /\ InFlight < lim.inFlight
  /\ nextId' = nextId + 1
  /\ \E ms \in DateNow : entryTimestamp' = [entryTimestamp EXCEPT ![nextId + 1] = ms]
  /\ trackingCache' = trackingCache \cup {nextId + 1}
  /\ cap' = [cap EXCEPT ![nextId + 1] = [NoCall EXCEPT !.pc = "setEntry"]]
  /\ cyc' = TouchAll
  /\ UNCHANGED <<sVars, aVars, lVars, rVars, oVars, iVars, dVars, lim, storeEntries, storeMaster, heap, syncQueue, clr, imp,
                 faultsLeft, restarts, pushed, uploaded, discarded, pendingAtStop>>

\* trackMovement lines 77-99: as trackInspection.
trackMovement ==
  /\ nextId < lim.entries
  /\ InFlight < lim.inFlight
  /\ nextId' = nextId + 1
  /\ \E ms \in DateNow : entryTimestamp' = [entryTimestamp EXCEPT ![nextId + 1] = ms]
  /\ trackingCache' = trackingCache \cup {nextId + 1}
  /\ cap' = [cap EXCEPT ![nextId + 1] = [NoCall EXCEPT !.pc = "setEntry"]]
  /\ cyc' = TouchAll
  /\ UNCHANGED <<sVars, aVars, lVars, rVars, oVars, iVars, dVars, lim, storeEntries, storeMaster, heap, syncQueue, clr, imp,
                 faultsLeft, restarts, pushed, uploaded, discarded, pendingAtStop>>

\* A variant in which a failed store write reaches the catch of the capture.
StoreFaultRethrown == "fail"

\* storeTrackingEntry lines 192-194: the catch logs a rejected setItem and
\* storeTrackingEntry returns normally, so its caller goes on at the line
\* after the call ("push"); a rejection that reached the caller would go to
\* the caller's own catch ("fail").
StoreFaultGoesTo == "push"

\* storeTrackingEntry line 186 settles.
StoreEntryKey(e) ==
  /\ cap[e].pc = "setEntry"
  /\ \E ok \in BOOLEAN :
       /\ Outcome(ok)
       /\ CountFault(ok)
       /\ storeEntries' = PutEntryKey(e, ok)
       /\ cap' = [cap EXCEPT ![e].pc = IF ok THEN "getMaster" ELSE StoreFaultGoesTo,
                             ![e].faulted = ~ok]
  /\ cyc' = TouchAll
  /\ UNCHANGED <<sVars, aVars, lVars, rVars, oVars, iVars, dVars, lim, storeMaster, trackingCache, heap, syncQueue, nextId, entryTimestamp, clr, imp,
                 restarts, pushed, uploaded, discarded, pendingAtStop>>

\* storeTrackingEntry line 189: getMasterTrackingList settles.
StoreReadMaster(e) ==
  /\ cap[e].pc = "getMaster"
  /\ \E ok \in BOOLEAN :
       /\ Outcome(ok)
       /\ CountFault(ok)
       /\ cap' = [cap EXCEPT ![e].pc = "setMaster", ![e].ml = getMasterTrackingList(ok)]
  /\ cyc' = TouchAll
  /\ UNCHANGED <<sVars, aVars, lVars, rVars, oVars, iVars, dVars, lim, storeEntries, storeMaster, trackingCache, heap, syncQueue, nextId, entryTimestamp,
                 clr, imp, restarts, pushed, uploaded, discarded, pendingAtStop>>

\* storeTrackingEntry lines 190-191 settle.
StoreWriteMaster(e) ==
  /\ cap[e].pc = "setMaster"
  /\ \E ok \in BOOLEAN :
       /\ Outcome(ok)
       /\ CountFault(ok)
       /\ storeMaster' = PutMasterList(cap[e].ml, e, ok)
       /\ cap' = [cap EXCEPT ![e].pc = IF ok THEN "push" ELSE StoreFaultGoesTo,
                             ![e].ml = <<>>, ![e].faulted = ~ok]
  /\ cyc' = TouchAll
  /\ UNCHANGED <<sVars, aVars, lVars, rVars, oVars, iVars, dVars, lim, storeEntries, trackingCache, heap, syncQueue, nextId, entryTimestamp, clr, imp,
                 restarts, pushed, uploaded, discarded, pendingAtStop>>

\* Lines 33, 68, 102: this.syncQueue.push(trackingEntry).
QueueAfterPush(q, e) == Append(q, e)

\* The capture call returns: lines 32-35 push the entry and return it; the
\* catch of lines 36-39 returns null.
TrackReturn(e) ==
  /\ cap[e].pc \in {"push", "fail"}
  /\ IF cap[e].pc = "push"
     THEN /\ heap' = [heap EXCEPT ![syncQueue] = QueueAfterPush(heap[syncQueue], e)]
          /\ pushed' = pushed \cup {e}
          /\ cap' = [cap EXCEPT ![e].pc = "done", ![e].ret = "entry"]
     ELSE /\ cap' = [cap EXCEPT ![e].pc = "done", ![e].ret = "null"]
          /\ UNCHANGED <<heap, pushed>>
  /\ cyc' = TouchAll
  /\ UNCHANGED <<sVars, aVars, lVars, rVars, oVars, iVars, dVars, lim, storeEntries, storeMaster, trackingCache, syncQueue, nextId, entryTimestamp, clr, imp,
                 faultsLeft, restarts, uploaded, discarded, pendingAtStop>>

\* --------------------------------------- TrackingService: syncPendingEntries

\* A variant in which a finished cycle leaves the queue empty.
QueueAfterCycleEmpty(failed) == <<>>

\* Line 251: this.syncQueue = failedEntries.
QueueAfterCycle(failed) == failed

\* Lines 232-242: an empty queue returns at once; otherwise the for-of loop
\* takes the array that is this.syncQueue now and awaits the first upload.
SyncStart(c) ==
  /\ cyc[c].pc = "idle"
  /\ IF c = 1 THEN TRUE ELSE cyc[c - 1].pc # "idle"
  /\ cyc' = [Touch(c) EXCEPT ![c] =
       IF Len(Queue) = 0
       THEN [IdleCycle EXCEPT !.pc = "done", !.result.success = TRUE]
       ELSE [IdleCycle EXCEPT !.pc = "await", !.arr = syncQueue, !.idx = 1,
                              !.startQ = Queue]]
  /\ UNCHANGED <<sVars, aVars, lVars, rVars, oVars, iVars, dVars, lim, storeEntries, storeMaster, trackingCache, heap, syncQueue, nextId, entryTimestamp,
                 cap, clr, imp, faultsLeft, restarts, pushed, uploaded, discarded,
                 pendingAtStop>>

\* simulateServerSync settles (lines 267-278: resolves, or throws 'Network
\* timeout'); lines 243-248 count it; the array iterator then compares its
\* index with the array's current length; when it is exhausted, lines 251-257.
SyncUpload(c) ==
  /\ cyc[c].pc = "await"
  /\ \E ok \in BOOLEAN :
       LET me == cyc[c]
           cur == heap[me.arr][me.idx]
           failed == IF ok THEN me.failed ELSE Append(me.failed, cur)
           synced == IF ok THEN me.synced + 1 ELSE me.synced
           more == me.idx < Len(heap[me.arr])
           step == [me EXCEPT !.failed = failed, !.synced = synced,
                              !.outcomes = Append(me.outcomes, [id |-> cur, ok |-> ok])]
       IN /\ uploaded' = IF ok THEN uploaded \cup {cur} ELSE uploaded
          /\ IF more
             THEN /\ cyc' = [Touch(c) EXCEPT ![c] = [step EXCEPT !.idx = me.idx + 1]]
                  /\ UNCHANGED <<heap, syncQueue>>
             ELSE /\ syncQueue' = Len(heap) + 1
                  /\ cyc' = [Touch(c) EXCEPT ![c] =
                       [step EXCEPT !.pc = "done", !.arr = 0, !.idx = 0,
                          !.result = [success |-> TRUE, synced |-> synced,
                                      failed |-> Len(failed)]]]
                  /\ heap' = Live(Append(heap, QueueAfterCycle(failed)),
                                  syncQueue', cyc')
  /\ UNCHANGED <<sVars, aVars, lVars, rVars, oVars, iVars, dVars, lim, storeEntries, storeMaster, trackingCache, nextId, entryTimestamp, cap, clr, imp,
                 faultsLeft, restarts, pushed, discarded, pendingAtStop>>

\* ---------------------------------------- TrackingService: clearTrackingData

\* Line 282 is issued.
ClearStart ==
  /\ clr.pc = "idle"
  /\ clr.n < lim.clears
  /\ clr' = [clr EXCEPT !.pc = "getMaster", !.n = clr.n + 1]
  /\ cyc' = TouchAll
  /\ UNCHANGED <<sVars, aVars, lVars, rVars, oVars, iVars, dVars, lim, storeEntries, storeMaster, trackingCache, heap, syncQueue, nextId, entryTimestamp,
                 cap, imp, faultsLeft, restarts, pushed, uploaded, discarded, pendingAtStop>>

\* Line 282 settles; the loop of line 285 issues its first removeItem, or with
\* an empty list line 290 is issued.
ClearReadMaster ==
  /\ clr.pc = "getMaster"
  /\ \E ok \in BOOLEAN :
       /\ Outcome(ok)
       /\ CountFault(ok)
       /\ LET ml == getMasterTrackingList(ok)
          IN clr' = [clr EXCEPT !.ml = ml, !.idx = 1,
                                !.pc = IF ml = <<>> THEN "rmMaster" ELSE "rmEntry"]
  /\ cyc' = TouchAll
  /\ UNCHANGED <<sVars, aVars, lVars, rVars, oVars, iVars, dVars, lim, storeEntries, storeMaster, trackingCache, heap, syncQueue, nextId, entryTimestamp,
                 cap, imp, restarts, pushed, uploaded, discarded, pendingAtStop>>

\* Line 286 settles; a rejection goes to the catch of line 297.
ClearRemoveEntry ==
  /\ clr.pc = "rmEntry"
  /\ \E ok \in BOOLEAN :
       /\ Outcome(ok)
       /\ CountFault(ok)
       /\ storeEntries' = IF ok THEN storeEntries \ {clr.ml[clr.idx]} ELSE storeEntries
       /\ clr' = IF ~ok THEN [clr EXCEPT !.pc = "done", !.success = FALSE,
                                          !.ml = <<>>, !.idx = 0]
                 ELSE IF clr.idx < Len(clr.ml) THEN [clr EXCEPT !.idx = clr.idx + 1]
                 ELSE [clr EXCEPT !.pc = "rmMaster"]
  /\ cyc' = TouchAll
  /\ UNCHANGED <<sVars, aVars, lVars, rVars, oVars, iVars, dVars, lim, storeMaster, trackingCache, heap, syncQueue, nextId, entryTimestamp, cap, imp,
                 restarts, pushed, uploaded, discarded, pendingAtStop>>

\* Line 290 settles.
ClearRemoveMaster ==
  /\ clr.pc = "rmMaster"
  /\ \E ok \in BOOLEAN :
       /\ Outcome(ok)
       /\ CountFault(ok)
       /\ storeMaster' = IF ok THEN [present |-> FALSE, list |-> <<>>] ELSE storeMaster
       /\ clr' = IF ok THEN [clr EXCEPT !.pc = "finish"]
                 ELSE [clr EXCEPT !.pc = "done", !.success = FALSE,
                                  !.ml = <<>>, !.idx = 0]
  /\ cyc' = TouchAll
  /\ UNCHANGED <<sVars, aVars, lVars, rVars, oVars, iVars, dVars, lim, storeEntries, trackingCache, heap, syncQueue, nextId, entryTimestamp, cap, imp,
                 restarts, pushed, uploaded, discarded, pendingAtStop>>

\* Lines 293-296: trackingCache.clear(); this.syncQueue = []; return success.
ClearFinish ==
  /\ clr.pc = "finish"
  /\ trackingCache' = {}
  /\ syncQueue' = Len(heap) + 1
  /\ discarded' = discarded \cup pushed
  /\ clr' = [clr EXCEPT !.pc = "done", !.success = TRUE, !.ml = <<>>, !.idx = 0]
  /\ cyc' = TouchAll
  /\ heap' = Live(Append(heap, <<>>), syncQueue', cyc')
  /\ UNCHANGED <<sVars, aVars, lVars, rVars, oVars, iVars, dVars, lim, storeEntries, storeMaster, nextId, entryTimestamp, cap, imp, faultsLeft, restarts,
                 pushed, uploaded, pendingAtStop>>

\* --------------------------------------- TrackingService: importTrackingData

\* Lines 363-370: the entries of the import file carry their own ids; the loop
\* enters storeTrackingEntry for the first one.
ImportStart ==
  /\ imp.pc = "idle"
  /\ imp.n = 0
  /\ \E entries \in SeqsUpTo(Ids, MaxImportLen) :
       imp' = [IdleImport EXCEPT !.pc = "setEntry", !.todo = entries, !.n = 1]
  /\ UNCHANGED <<sVars, aVars, lVars, rVars, oVars, iVars, dVars, lim, storeEntries, storeMaster, trackingCache, heap, syncQueue, nextId, entryTimestamp,
                 cap, cyc, clr, faultsLeft, restarts, pushed, uploaded, discarded,
                 pendingAtStop>>

\* storeTrackingEntry(entry) line 186 for the import's current entry.
ImportEntryKey ==
  /\ imp.pc = "setEntry"
  /\ \E ok \in BOOLEAN :
       /\ Outcome(ok)
       /\ CountFault(ok)
       /\ storeEntries' = PutEntryKey(Head(imp.todo), ok)
       /\ imp' = [imp EXCEPT !.pc = IF ok THEN "getMaster" ELSE "cache"]
  /\ UNCHANGED <<sVars, aVars, lVars, rVars, oVars, iVars, dVars, lim, storeMaster, trackingCache, heap, syncQueue, nextId, entryTimestamp, cap, cyc, clr,
                 restarts, pushed, uploaded, discarded, pendingAtStop>>

\* storeTrackingEntry line 189 for the import's current entry.
ImportReadMaster ==
  /\ imp.pc = "getMaster"
  /\ \E ok \in BOOLEAN :
       /\ Outcome(ok)
       /\ CountFault(ok)
       /\ imp' = [imp EXCEPT !.pc = "setMaster", !.ml = getMasterTrackingList(ok)]
  /\ UNCHANGED <<sVars, aVars, lVars, rVars, oVars, iVars, dVars, lim, storeEntries, storeMaster, trackingCache, heap, syncQueue, nextId, entryTimestamp,
                 cap, cyc, clr, restarts, pushed, uploaded, discarded, pendingAtStop>>

\* storeTrackingEntry lines 190-191 for the import's current entry.
ImportWriteMaster ==
  /\ imp.pc = "setMaster"
  /\ \E ok \in BOOLEAN :
       /\ Outcome(ok)
       /\ CountFault(ok)
       /\ storeMaster' = PutMasterList(imp.ml, Head(imp.todo), ok)
       /\ imp' = [imp EXCEPT !.pc = "cache"]
  /\ UNCHANGED <<sVars, aVars, lVars, rVars, oVars, iVars, dVars, lim, storeEntries, trackingCache, heap, syncQueue, nextId, entryTimestamp, cap, cyc, clr,
                 restarts, pushed, uploaded, discarded, pendingAtStop>>

\* Lines 371-372 and the next iteration, or the return of line 378.
ImportCache ==
  /\ imp.pc = "cache"
  /\ trackingCache' = trackingCache \cup {Head(imp.todo)}
  /\ imp' = [imp EXCEPT !.todo = Tail(imp.todo), !.imported = imp.imported + 1,
                        !.ml = <<>>,
                        !.pc = IF Len(imp.todo) > 1 THEN "setEntry" ELSE "done"]
  /\ UNCHANGED <<sVars, aVars, lVars, rVars, oVars, iVars, dVars, lim, storeEntries, storeMaster, heap, syncQueue, nextId, entryTimestamp, cap, cyc, clr,
                 faultsLeft, restarts, pushed, uploaded, discarded, pendingAtStop>>

\* ------------------------------------------------ TrackingService: restart

\* The process stops and the module is loaded again: the constructor (lines
\* 4-7) makes an empty Map and an empty array; AsyncStorage keeps its keys;
\* the calls that were in progress are gone.
Constructor ==
  /\ trackingCache' = {}
  /\ heap' = <<<<>>>>
  /\ syncQueue' = 1

Restart ==
  /\ restarts < MaxRestarts
  /\ restarts' = restarts + 1
  /\ pendingAtStop' = Range(Queue) \ uploaded
  /\ Constructor
  /\ cap' = [e \in Ids |-> IF cap[e].pc = "none" THEN cap[e]
                           ELSE [cap[e] EXCEPT !.pc = "gone", !.ml = <<>>]]
  /\ cyc' = [c \in Cycles |-> IdleCycle]
  /\ clr' = IdleClear
  /\ imp' = [IdleImport EXCEPT !.n = imp.n]
  /\ UNCHANGED <<sVars, aVars, lVars, rVars, oVars, iVars, dVars, lim, storeEntries, storeMaster, nextId, entryTimestamp, faultsLeft, pushed, uploaded, discarded>>

\* ------------------------------------------------ InspectionService: helpers

\* storeInspectionLocally line 305 and storeReportLocally line 454.
LocalLimit == 100
ReportLimit == 50

Subs == 1..lim.submits
ISyncs == 1..lim.isyncs

\* What an axios.post to a portal can do: answer 2xx ("ok"), fail to connect or
\* time out after 10 s ("transient"), or answer 4xx ("rejected").
Answers == {"ok", "transient", "rejected"}

\* submitToUDM / submitToTMS lines 259-295: {success: true} for an answer, and
\* the catch turns every thrown error into {success: false}.
submitResult(answer) == answer = "ok"

NoSubmit == [pc |-> "none", udm |-> FALSE, tms |-> FALSE, list |-> <<>>, ret |-> "none",
             errors |-> <<>>, inspectionId |-> 0]
NoISync == [pc |-> "idle", list |-> <<>>, pend |-> <<>>, k |-> 0, udm |-> FALSE,
            synced |-> 0, failed |-> 0, ret |-> "none"]

\* lines 302-307 and 451-456: push, then keep only the last n.
KeepLast(list, n) ==
  IF Len(list) > n THEN SubSeq(list, Len(list) - n + 1, Len(list)) ELSE list

\* getLocalInspections lines 315-323: the stored list, [] when the key is
\* absent or the read rejects.
getLocalInspections(ok) ==
  IF ok /\ localInspections.present THEN localInspections.list ELSE <<>>

\* The portals' record of an upload of inspection i.
Ack(acked, i, answer) == IF answer = "ok" THEN acked \cup {i} ELSE acked
Reject(i, answer) == IF answer = "rejected" THEN rejected \cup {i} ELSE rejected

\* ------------------------------------------ InspectionService: submitInspection

\* Lines 22-25 and 508-509: whatever submitToUDM returned (it catches every
\* error of its own), the next statement awaits submitToTMS, whose first
\* await is the getItem of line 280.
AfterUDM(udmOk) == "tmsToken"

\* An inspection form, as far as validateInspectionData and
\* prepareInspectionPayload look at it: the QR code is absent, present and not
\* of the pattern of isValidQRCode (lines 88-91), or of that pattern; the
\* inspector's name is absent, a text btoa encodes ("latin1"), or a text with a
\* character above U+00FF; each of visualCheck, dimensionalCheck, materialCheck
\* and functionalCheck is an object or missing; a measurement is absent (or 0
\* or ''), a number, or a text for which isNaN is true, and is absent when the
\* object that holds it is missing.
Measures == {"absent", "number", "text"}
Names == {"absent", "latin1", "wide"}
AllForms ==
  {data \in [qrCode : {"absent", "malformed", "wellformed"},
             inspectorName : Names, inspectionType : BOOLEAN,
             visualCheck : BOOLEAN, dimensionalCheck : BOOLEAN,
             materialCheck : BOOLEAN, functionalCheck : BOOLEAN,
             length : Measures, width : Measures, hardness : Measures] :
     /\ ~data.dimensionalCheck => data.length = "absent" /\ data.width = "absent"
     /\ ~data.materialCheck => data.hardness = "absent"}
GoodForm == [qrCode |-> "wellformed", inspectorName |-> "latin1", inspectionType |-> TRUE,
             visualCheck |-> TRUE, dimensionalCheck |-> TRUE,
             materialCheck |-> TRUE, functionalCheck |-> TRUE,
             length |-> "number", width |-> "absent", hardness |-> "absent"]
\* Forms as InspectionScreen sends them: the four check objects are there.
TypicalForms == {GoodForm, [GoodForm EXCEPT !.qrCode = "absent"]}
Forms == IF lim.allForms THEN AllForms ELSE TypicalForms

isValidQRCode(qrCode) == qrCode = "wellformed"

\* validateInspectionData lines 47-86.
validateInspectionData(data) ==
  LET If(c, msg) == IF c THEN <<msg>> ELSE <<>>
      errors ==
        If(data.qrCode = "absent", "QR Code is required")
        \o If(data.inspectorName = "absent", "Inspector name is required")
        \o If(~data.inspectionType, "Inspection type is required")
        \o If(data.qrCode # "absent" /\ ~isValidQRCode(data.qrCode),
              "Invalid QR code format")
        \o If(data.length = "text", "Invalid length measurement")
        \o If(data.width = "text", "Invalid width measurement")
        \o If(data.hardness = "text", "Invalid hardness value")
  IN [valid |-> errors = <<>>, errors |-> errors]

\* A variant in which a form with a single error is let through.
RejectedAtBoundaryLenient(validation) == Len(validation.errors) > 1

\* Line 14: if (!validation.valid) return {success: false, ...}.
RejectedAtBoundary(validation) == ~validation.valid

\* prepareInspectionPayload lines 93-138 throws a TypeError when it reads a
\* property of a check object that is missing (lines 102-124), and btoa of
\* generateInspectorSignature (lines 223-227) throws for a name with a character
\* above U+00FF.
PayloadThrows(data) ==
  \/ ~(data.visualCheck /\ data.dimensionalCheck /\ data.materialCheck /\ data.functionalCheck)
  \/ data.inspectorName = "wide"

\* generateInspectionId lines 140-144: INS-<Date.now()>-<random 0..999>. The
\* id of the n-th submission is n, or the id an earlier submission of this run
\* got when both fell in one millisecond and drew the same number.
generateInspectionId(n) ==
  {n} \cup {sub[t].inspectionId : t \in {u \in 1..(n - 1) : lim.sameMs /\ sub[u].inspectionId # 0}}

\* Lines 12-22 and 41-44: validation; an invalid form returns success=false at
\* once; a valid one whose payload cannot be built goes to the catch, which
\* returns success=false with 'Failed to submit inspection'; otherwise the
\* payload has its inspectionId and submitToUDM is entered, whose first await
\* is the getItem of line 261.
submitInspection ==
  /\ nextSub < lim.submits
  /\ nextSub' = nextSub + 1
  /\ \E data \in Forms, inspectionId \in generateInspectionId(nextSub + 1) :
       LET validation == validateInspectionData(data)
       IN sub' = [sub EXCEPT ![nextSub + 1] =
                    IF RejectedAtBoundary(validation)
                    THEN [NoSubmit EXCEPT !.pc = "done", !.ret = "invalid",
                                          !.errors = validation.errors]
                    ELSE IF PayloadThrows(data)
                    THEN [NoSubmit EXCEPT !.pc = "done", !.ret = "failed",
                                          !.errors = validation.errors]
                    ELSE [NoSubmit EXCEPT !.pc = "udmToken", !.errors = validation.errors,
                                          !.inspectionId = inspectionId]]
  /\ UNCHANGED <<sVars, aVars, lVars, rVars, oVars, tVars, dVars, lim, faultsLeft, localInspections, inspectionReports, isync,
                 udmAcked, tmsAcked, rejected>>

\* submitToUDM line 261 settles: with the token read, axios.post of line 263
\* is issued; a rejected getItem goes to the catch of line 272, no request is
\* sent and submitToUDM returns {success: false}.
SubmitUDMToken(s) ==
  /\ sub[s].pc = "udmToken"
  /\ \E ok \in BOOLEAN :
       /\ Outcome(ok)
       /\ CountFault(ok)
       /\ sub' = [sub EXCEPT ![s].pc = IF ok THEN "udm" ELSE AfterUDM(FALSE)]
  /\ UNCHANGED <<sVars, aVars, lVars, rVars, oVars, tVars, dVars, lim, localInspections, inspectionReports, nextSub,
                 isync, udmAcked, tmsAcked, rejected>>

\* Line 22 settles: the UDM portal answered or the post threw; line 25 enters
\* submitToTMS.
SubmitUDM(s) ==
  /\ sub[s].pc = "udm"
  /\ \E answer \in Answers :
       /\ sub' = [sub EXCEPT ![s].pc = AfterUDM(submitResult(answer)),
                             ![s].udm = submitResult(answer)]
       /\ udmAcked' = Ack(udmAcked, s, answer)
       /\ rejected' = Reject(s, answer)
  /\ UNCHANGED <<sVars, aVars, lVars, rVars, oVars, tVars, dVars, lim, faultsLeft, localInspections, inspectionReports, nextSub,
                 isync, tmsAcked>>

\* submitToTMS line 280 settles: with the token read, axios.post of line 282
\* is issued; a rejected getItem goes to the catch of line 291, no request is
\* sent, and line 28 enters storeInspectionLocally.
SubmitTMSToken(s) ==
  /\ sub[s].pc = "tmsToken"
  /\ \E ok \in BOOLEAN :
       /\ Outcome(ok)
       /\ CountFault(ok)
       /\ sub' = [sub EXCEPT ![s].pc = IF ok THEN "tms" ELSE "readLocal"]
  /\ UNCHANGED <<sVars, aVars, lVars, rVars, oVars, tVars, dVars, lim, localInspections, inspectionReports, nextSub,
                 isync, udmAcked, tmsAcked, rejected>>

\* Line 25 settles; line 28 enters storeInspectionLocally, whose getItem is
\* awaited.
SubmitTMS(s) ==
  /\ sub[s].pc = "tms"
  /\ \E answer \in Answers :
       /\ sub' = [sub EXCEPT ![s].pc = "readLocal", ![s].tms = submitResult(answer)]
       /\ tmsAcked' = Ack(tmsAcked, s, answer)
       /\ rejected' = Reject(s, answer)
  /\ UNCHANGED <<sVars, aVars, lVars, rVars, oVars, tVars, dVars, lim, faultsLeft, localInspections, inspectionReports, nextSub,
                 isync, udmAcked>>

\* storeInspectionLocally line 299 settles; a rejection goes to the catch of
\* line 310 and nothing is stored.
SubmitReadLocal(s) ==
  /\ sub[s].pc = "readLocal"
  /\ \E ok \in BOOLEAN :
       /\ Outcome(ok)
       /\ CountFault(ok)
       /\ sub' = [sub EXCEPT ![s].pc = IF ok THEN "writeLocal" ELSE "readReports",
                             ![s].list = IF ok THEN getLocalInspections(TRUE) ELSE <<>>]
  /\ UNCHANGED <<sVars, aVars, lVars, rVars, oVars, tVars, dVars, lim, localInspections, inspectionReports, nextSub, isync,
                 udmAcked, tmsAcked, rejected>>

\* storeInspectionLocally lines 302-309 settle: the payload (which has no
\* synced field, so it reads as not synced) is appended and the list written;
\* line 31 enters generateInspectionReport and storeReportLocally's getItem.
SubmitWriteLocal(s) ==
  /\ sub[s].pc = "writeLocal"
  /\ \E ok \in BOOLEAN :
       /\ Outcome(ok)
       /\ CountFault(ok)
       /\ localInspections' =
            IF ok THEN [present |-> TRUE,
                        list |-> KeepLast(Append(sub[s].list,
                                                 [id |-> s, inspectionId |-> sub[s].inspectionId,
                                                  synced |-> FALSE]),
                                          LocalLimit)]
            ELSE localInspections
       /\ sub' = [sub EXCEPT ![s].pc = "readReports", ![s].list = <<>>]
  /\ UNCHANGED <<sVars, aVars, lVars, rVars, oVars, tVars, dVars, lim, inspectionReports, nextSub, isync,
                 udmAcked, tmsAcked, rejected>>

\* storeReportLocally line 448 settles; a rejection goes to the catch of line
\* 459 and generateInspectionReport still returns the report id.
SubmitReadReports(s) ==
  /\ sub[s].pc = "readReports"
  /\ \E ok \in BOOLEAN :
       /\ Outcome(ok)
       /\ CountFault(ok)
       /\ sub' = [sub EXCEPT ![s].pc = IF ok THEN "writeReports" ELSE "done",
                             ![s].ret = IF ok THEN "none" ELSE "ok",
                             ![s].list = IF ok /\ inspectionReports.present
                                         THEN inspectionReports.list ELSE <<>>]
  /\ UNCHANGED <<sVars, aVars, lVars, rVars, oVars, tVars, dVars, lim, localInspections, inspectionReports, nextSub, isync,
                 udmAcked, tmsAcked, rejected>>

\* storeReportLocally lines 451-458 settle, and submitInspection returns
\* success=true with udmStatus and tmsStatus (lines 33-40).
SubmitWriteReports(s) ==
  /\ sub[s].pc = "writeReports"
  /\ \E ok \in BOOLEAN :
       /\ Outcome(ok)
       /\ CountFault(ok)
       /\ inspectionReports' =
            IF ok THEN [present |-> TRUE,
                        list |-> KeepLast(Append(sub[s].list, s), ReportLimit)]
            ELSE inspectionReports
       /\ sub' = [sub EXCEPT ![s].pc = "done", ![s].ret = "ok", ![s].list = <<>>]
  /\ UNCHANGED <<sVars, aVars, lVars, rVars, oVars, tVars, dVars, lim, localInspections, nextSub, isync,
                 udmAcked, tmsAcked, rejected>>

\* ------------------------------------ InspectionService: syncPendingInspections

\* Line 511: udmResult.success || tmsResult.success.
MarkSynced(udmOk, tmsOk) == udmOk \/ tmsOk

\* Line 502: the inspections of the list that are not marked synced.
PendingSync(list) == SelectSeq([i \in DOMAIN list |-> i], LAMBDA i : ~list[i].synced)

\* Line 501 is issued.
syncPendingInspections(c) ==
  /\ isync[c].pc = "idle"
  /\ IF c = 1 THEN TRUE ELSE isync[c - 1].pc # "idle"
  /\ isync' = [isync EXCEPT ![c].pc = "read"]
  /\ UNCHANGED <<sVars, aVars, lVars, rVars, oVars, tVars, dVars, lim, faultsLeft, localInspections, inspectionReports, nextSub,
                 sub, udmAcked, tmsAcked, rejected>>

\* Line 501 settles; line 502 filters; the loop enters its first submitToUDM
\* (getItem of line 261), or with nothing pending line 520 is issued.
ISyncRead(c) ==
  /\ isync[c].pc = "read"
  /\ \E ok \in BOOLEAN :
       /\ Outcome(ok)
       /\ CountFault(ok)
       /\ LET list == getLocalInspections(ok)
              pend == PendingSync(list)
          IN isync' = [isync EXCEPT ![c].list = list, ![c].pend = pend, ![c].k = 1,
                         ![c].pc = IF pend = <<>> THEN "write" ELSE "udmToken"]
  /\ UNCHANGED <<sVars, aVars, lVars, rVars, oVars, tVars, dVars, lim, localInspections, inspectionReports, nextSub, sub,
                 udmAcked, tmsAcked, rejected>>

\* The inspection the loop of line 507 is at.
Current(c) == isync[c].list[isync[c].pend[isync[c].k]].id

\* submitToUDM line 261 settles inside the loop (line 508): the post is
\* issued, or the getItem rejected and submitToUDM returns {success: false}
\* without a request.
ISyncUDMToken(c) ==
  /\ isync[c].pc = "udmToken"
  /\ \E ok \in BOOLEAN :
       /\ Outcome(ok)
       /\ CountFault(ok)
       /\ isync' = [isync EXCEPT ![c].pc = IF ok THEN "udm" ELSE AfterUDM(FALSE)]
  /\ UNCHANGED <<sVars, aVars, lVars, rVars, oVars, tVars, dVars, lim, localInspections, inspectionReports, nextSub,
                 sub, udmAcked, tmsAcked, rejected>>

\* Line 508 settles; line 509 enters submitToTMS.
ISyncUDM(c) ==
  /\ isync[c].pc = "udm"
  /\ \E answer \in Answers :
       /\ isync' = [isync EXCEPT ![c].pc = AfterUDM(submitResult(answer)),
                                 ![c].udm = submitResult(answer)]
       /\ udmAcked' = Ack(udmAcked, Current(c), answer)
       /\ rejected' = Reject(Current(c), answer)
  /\ UNCHANGED <<sVars, aVars, lVars, rVars, oVars, tVars, dVars, lim, faultsLeft, localInspections, inspectionReports, nextSub,
                 sub, tmsAcked>>

\* Lines 511-516 for the inspection the loop is at, with tmsResult.success =
\* tmsOk: mark and count; the loop goes on, or line 520 is issued.
IterationEnds(c, tmsOk) ==
  LET me == isync[c]
      at == me.pend[me.k]
      mark == MarkSynced(me.udm, tmsOk)
  IN [isync EXCEPT
        ![c].list = IF mark THEN [me.list EXCEPT ![at].synced = TRUE] ELSE me.list,
        ![c].synced = IF mark THEN me.synced + 1 ELSE me.synced,
        ![c].failed = IF mark THEN me.failed ELSE me.failed + 1,
        ![c].udm = FALSE,
        ![c].k = IF me.k < Len(me.pend) THEN me.k + 1 ELSE me.k,
        ![c].pc = IF me.k < Len(me.pend) THEN "udmToken" ELSE "write"]

\* submitToTMS line 280 settles inside the loop (line 509): the post is
\* issued, or the getItem rejected, submitToTMS returns {success: false}
\* without a request and lines 511-516 run.
ISyncTMSToken(c) ==
  /\ isync[c].pc = "tmsToken"
  /\ \E ok \in BOOLEAN :
       /\ Outcome(ok)
       /\ CountFault(ok)
       /\ isync' = IF ok THEN [isync EXCEPT ![c].pc = "tms"] ELSE IterationEnds(c, FALSE)
  /\ UNCHANGED <<sVars, aVars, lVars, rVars, oVars, tVars, dVars, lim, localInspections, inspectionReports, nextSub,
                 sub, udmAcked, tmsAcked, rejected>>

\* Line 509 settles; lines 511-516 mark and count.
ISyncTMS(c) ==
  /\ isync[c].pc = "tms"
  /\ \E answer \in Answers :
       /\ isync' = IterationEnds(c, submitResult(answer))
       /\ tmsAcked' = Ack(tmsAcked, Current(c), answer)
       /\ rejected' = Reject(Current(c), answer)
  /\ UNCHANGED <<sVars, aVars, lVars, rVars, oVars, tVars, dVars, lim, faultsLeft, localInspections, inspectionReports, nextSub,
                 sub, udmAcked>>

\* Line 520 settles: the list read at line 501, with the marks of this cycle,
\* replaces the stored one; a rejection goes to the catch of line 528.
ISyncWrite(c) ==
  /\ isync[c].pc = "write"
  /\ \E ok \in BOOLEAN :
       /\ Outcome(ok)
       /\ CountFault(ok)
       /\ localInspections' = IF ok THEN [present |-> TRUE, list |-> isync[c].list]
                              ELSE localInspections
       /\ isync' = [isync EXCEPT ![c].pc = "done", ![c].list = <<>>, ![c].pend = <<>>,
                                 ![c].k = 0, ![c].ret = IF ok THEN "ok" ELSE "error"]
  /\ UNCHANGED <<sVars, aVars, lVars, rVars, oVars, tVars, dVars, lim, inspectionReports, nextSub, sub,
                 udmAcked, tmsAcked, rejected>>

\* ------------------------------------------------------ DashboardService

\* Constructor line 7: this.cacheExpiry = 5 * 60 * 1000.
CacheExpiry == 300000

Calls == 1..lim.calls

NoCache == [present |-> FALSE, data |-> 0, timestamp |-> 0]
\* A call: what it holds while it runs (the entry it read and when, the value
\* it generated, the timestamp it gave it), what it returned, and whether its
\* read of the store came after a call whose computation threw.
NoDash == [pc |-> "idle", seen |-> NoCache, at |-> 0, val |-> 0, stamp |-> 0,
           hit |-> FALSE, ret |-> 0, afterFailure |-> FALSE]

\* The clock advances by a millisecond or by a millisecond less than the
\* expiry, so that reads fall just inside, on and just outside the window.
Advances == {1, CacheExpiry - 1}

Tick ==
  /\ ticks < lim.ticks
  /\ ticks' = ticks + 1
  /\ \E by \in Advances : now' = now + by
  /\ UNCHANGED <<sVars, aVars, lVars, rVars, oVars, tVars, iVars, lim, faultsLeft, dashCache, call, computes, dclears,
                 serial>>

\* A variant in which an entry exactly at its expiry still counts as fresh.
FreshInclusive(t, timestamp) == t - timestamp <= CacheExpiry

\* getCachedData line 37: Date.now() - timestamp < this.cacheExpiry.
Fresh(t, timestamp) == t - timestamp < CacheExpiry

\* getFallbackData lines 402-421: a fixed value, told apart from every
\* generated value.
Fallback == -1

\* Calls that returned the fallback because the computation threw.
FailedCalls == {d \in Calls : call[d].pc = "done" /\ call[d].ret = Fallback}

\* Calls that have started and not returned.
Running == {d \in Calls : call[d].pc \notin {"idle", "done"}}

\* getDashboardData line 13: getCachedData is entered and its getItem awaited.
getDashboardData(d) ==
  /\ call[d].pc = "idle"
  /\ IF d = 1 THEN TRUE ELSE call[d - 1].pc # "idle"
  /\ call' = [call EXCEPT ![d].pc = "read"]
  /\ serial' = (serial /\ Running = {})
  /\ UNCHANGED <<sVars, aVars, lVars, rVars, oVars, tVars, iVars, lim, faultsLeft, dashCache, now, ticks, computes,
                 dclears>>

\* getCachedData lines 34-45 settle: a present and fresh entry is returned
\* (lines 14-16); an absent or expired entry, or a rejected read, gives null
\* and line 19 invokes generateDashboardData, whose result is a new value.
DashRead(d) ==
  /\ call[d].pc = "read"
  /\ \E ok \in BOOLEAN :
       /\ Outcome(ok)
       /\ CountFault(ok)
       /\ serial' = (serial /\ ok)
       /\ LET seen == IF ok THEN dashCache ELSE NoCache
          IN IF seen.present /\ Fresh(now, seen.timestamp)
             THEN /\ call' = [call EXCEPT ![d] = [NoDash EXCEPT !.pc = "done",
                                                   !.hit = TRUE, !.ret = seen.data,
                                                   !.afterFailure = FailedCalls # {}]]
                  /\ UNCHANGED computes
             ELSE /\ call' = [call EXCEPT ![d].pc = "gen", ![d].seen = seen,
                                          ![d].at = now, ![d].val = computes + 1,
                                          ![d].afterFailure = FailedCalls # {}]
                  /\ computes' = computes + 1
  /\ UNCHANGED <<sVars, aVars, lVars, rVars, oVars, tVars, iVars, lim, dashCache, now, ticks, dclears>>

\* A variant in which the catch stores the fallback value.
CacheAfterFailurePoisoned(cache) ==
  [present |-> TRUE, data |-> Fallback, timestamp |-> now]

\* getDashboardData lines 25-29: the catch logs and returns the fallback;
\* cacheData is not called, so the stored entry is what it was.
CacheAfterFailure(cache) == cache

\* generateDashboardData (lines 60-79) settles. When it returns, cacheData
\* lines 50-54 build {data, timestamp: Date.now()} and await setItem; when it
\* throws, the catch of getDashboardData (lines 25-29) returns getFallbackData().
DashGenerated(d) ==
  /\ call[d].pc = "gen"
  /\ \E thrown \in BOOLEAN :
       /\ thrown => Cardinality(FailedCalls) < lim.throws
       /\ call' = IF thrown
                  THEN [call EXCEPT ![d] = [NoDash EXCEPT !.pc = "done", !.ret = Fallback]]
                  ELSE [call EXCEPT ![d].pc = "cache", ![d].stamp = now]
       /\ dashCache' = IF thrown THEN CacheAfterFailure(dashCache) ELSE dashCache
       /\ serial' = (serial /\ ~thrown)
  /\ UNCHANGED <<sVars, aVars, lVars, rVars, oVars, tVars, iVars, lim, faultsLeft, now, ticks, computes, dclears>>

\* cacheData line 54 settles (a rejection is caught at line 55) and
\* getDashboardData returns the generated data (line 24).
DashCached(d) ==
  /\ call[d].pc = "cache"
  /\ \E ok \in BOOLEAN :
       /\ Outcome(ok)
       /\ CountFault(ok)
       /\ serial' = (serial /\ ok)
       /\ dashCache' = IF ok THEN [present |-> TRUE, data |-> call[d].val,
                                   timestamp |-> call[d].stamp]
                       ELSE dashCache
       /\ call' = [call EXCEPT ![d] = [NoDash EXCEPT !.pc = "done", !.ret = call[d].val,
                                             !.afterFailure = call[d].afterFailure]]
  /\ UNCHANGED <<sVars, aVars, lVars, rVars, oVars, tVars, iVars, lim, now, ticks, computes, dclears>>

\* clearCache lines 423-429 (the first half of refreshData).
clearCache ==
  /\ dclears < lim.dclears
  /\ dclears' = dclears + 1
  /\ serial' = FALSE
  /\ \E ok \in BOOLEAN :
       /\ Outcome(ok)
       /\ CountFault(ok)
       /\ dashCache' = IF ok THEN NoCache ELSE dashCache
  /\ UNCHANGED <<sVars, aVars, lVars, rVars, oVars, tVars, iVars, lim, now, ticks, call, computes>>

\* ---------------------------------------------------------- OfflineScreen

\* The two getItem calls of a Promise.all (lines 60-63 and 124-127) and what
\* each has read: the calls settle one by one.
NoReads == [pc |-> "idle", scans |-> "pending", inspections |-> "pending",
            scanData |-> <<>>, inspectionData |-> <<>>]
IdleOSync == NoReads
NoLoad == [NoReads EXCEPT !.pc = "none"]
Stored(key) == IF key = "scans" THEN offlineScans ELSE offlineInspections
Other(key) == IF key = "scans" THEN "inspections" ELSE "scans"
GotItem(r, key) ==
  IF key = "scans" THEN [r EXCEPT !.scans = "read", !.scanData = Stored(key)]
  ELSE [r EXCEPT !.inspections = "read", !.inspectionData = Stored(key)]
NoOClear == [pc |-> "none", scans |-> "pending", inspections |-> "pending", alert |-> "none"]
OClears == 1..lim.oclears

\* The counts of useState (lines 28-32) and of setOfflineData at lines
\* 167-171 and 210-214.
NothingOffline == [qrScans |-> 0, inspections |-> 0]

\* The device gains or loses its connection.
ConnectivityChanges ==
  /\ online' = ~online
  /\ UNCHANGED <<sVars, aVars, lVars, rVars, tVars, iVars, dVars, lim, faultsLeft, offlineScans, offlineInspections,
                 lastSync, networkStatus, syncStatus, probes, osync, presses,
                 published, tried, offlineData, oclear, oload>>

\* checkNetworkStatus lines 78-84, called at mount (line 39) and by the
\* interval of line 42: the fetch is issued.
checkNetworkStatus ==
  /\ probes < lim.probes
  /\ probes' = probes + 1
  /\ UNCHANGED <<sVars, aVars, lVars, rVars, tVars, iVars, dVars, lim, faultsLeft, online, offlineScans,
                 offlineInspections, lastSync, networkStatus, syncStatus, osync,
                 presses, published, tried, offlineData, oclear, oload>>

\* Lines 85-88: the fetch settles; setNetworkStatus(response.ok), or false when
\* it threw. It can only succeed when the device is online.
ProbeSettles ==
  /\ probes > 0
  /\ probes' = probes - 1
  /\ \E ok \in BOOLEAN :
       /\ ok => online
       /\ networkStatus' = ok
  /\ published' = TRUE
  /\ UNCHANGED <<sVars, aVars, lVars, rVars, tVars, iVars, dVars, lim, faultsLeft, online, offlineScans,
                 offlineInspections, lastSync, syncStatus, osync, presses, tried, offlineData, oclear, oload>>

\* The mount effect, line 38: loadOfflineData (lines 58-63) issues its two
\* getItem calls.
loadOfflineData ==
  /\ oload.pc = "none"
  /\ oload' = [NoLoad EXCEPT !.pc = "loading"]
  /\ UNCHANGED <<sVars, aVars, lVars, rVars, tVars, iVars, dVars, lim, faultsLeft, online, offlineScans,
                 offlineInspections, lastSync, networkStatus, syncStatus, probes, osync,
                 presses, published, tried, offlineData, oclear>>

\* Lines 60-75: one getItem of loadOfflineData settles. A rejection rejects
\* the Promise.all and the catch only logs: the displayed counts stay as they
\* are. When both have resolved, setOfflineData shows the lengths read.
OLoadSettles(key) ==
  /\ oload.pc = "loading"
  /\ oload[key] = "pending"
  /\ \E ok \in BOOLEAN :
       /\ Outcome(ok)
       /\ CountFault(ok)
       /\ LET r == GotItem(oload, key)
          IN IF ~ok
             THEN /\ oload' = [NoLoad EXCEPT !.pc = "done"]
                  /\ UNCHANGED offlineData
             ELSE IF r[Other(key)] = "pending"
             THEN /\ oload' = r
                  /\ UNCHANGED offlineData
             ELSE /\ oload' = [NoLoad EXCEPT !.pc = "done"]
                  /\ offlineData' = [qrScans |-> Len(r.scanData),
                                     inspections |-> Len(r.inspectionData)]
  /\ UNCHANGED <<sVars, aVars, lVars, rVars, tVars, iVars, dVars, lim, online, offlineScans,
                 offlineInspections, lastSync, networkStatus, syncStatus, probes, osync,
                 presses, published, tried, oclear>>

OLoadScans == OLoadSettles("scans")
OLoadInspections == OLoadSettles("inspections")

\* The Sync Data button (lines 433-441) is disabled without the network
\* signal, while the status is 'syncing' and while both displayed counts are 0
\* (line 436).
SyncEnabled == networkStatus /\ syncStatus # "syncing" /\ offlineData # NothingOffline

\* syncOfflineData lines 114-127, called by the button's onPress (line 435)
\* and by nothing else: without the signal it alerts and returns (a branch no
\* press reaches, the button being disabled then); with it, the status
\* becomes 'syncing' and the two getItem calls are issued.
syncOfflineData ==
  /\ SyncEnabled
  /\ presses < lim.presses
  /\ presses' = presses + 1
  /\ IF ~networkStatus
     THEN UNCHANGED <<syncStatus, osync>>
     ELSE /\ syncStatus' = "syncing"
          /\ osync' = [IdleOSync EXCEPT !.pc = "read"]
  /\ UNCHANGED <<sVars, aVars, lVars, rVars, tVars, iVars, dVars, lim, faultsLeft, online, offlineScans,
                 offlineInspections, lastSync, networkStatus, probes, published, tried, offlineData, oclear, oload>>

\* Lines 142 and 153: QRService (src/unnamed/part_006) defines neither
\* uploadScanData nor uploadInspectionData, so the call throws a TypeError,
\* which the catch of lines 144 / 155 logs; no request leaves the device.
uploadScanData(scan) == "TypeError"
uploadInspectionData(inspection) == "TypeError"

\* A variant in which the catch leaves the status as it was.
SyncFailedStatusKept == "syncing"

\* Lines 186-190: the catch of the run sets the status to 'error'.
SyncFailedStatus == "error"

\* Lines 139-158: the number of items whose upload call returned.
SyncedCount(outcomes) ==
  Cardinality({i \in DOMAIN outcomes : outcomes[i] = "ok"})

\* Lines 124-176: one getItem of the run settles. A rejection rejects the
\* Promise.all and the catch of line 186 ends the run. When both have
\* resolved: with both lists empty the status is 'success' and the call
\* returns (lines 132-136); otherwise both loops run over the lists read (they
\* have nothing to wait for), the keys are removed only if every item was
\* synced (line 161), and setItem('lastSync') is issued.
OSyncRead(key) ==
  /\ osync.pc = "read"
  /\ osync[key] = "pending"
  /\ \E ok \in BOOLEAN :
       /\ Outcome(ok)
       /\ CountFault(ok)
       /\ LET r == GotItem(osync, key)
              scanData == r.scanData
              inspectionData == r.inspectionData
              syncedScans == SyncedCount([i \in DOMAIN scanData |-> uploadScanData(scanData[i])])
              syncedInspections ==
                SyncedCount([i \in DOMAIN inspectionData |->
                               uploadInspectionData(inspectionData[i])])
              all == /\ syncedScans = Len(scanData)
                     /\ syncedInspections = Len(inspectionData)
          IN IF ~ok
             THEN /\ syncStatus' = SyncFailedStatus
                  /\ osync' = IdleOSync
                  /\ UNCHANGED <<offlineScans, offlineInspections, tried, offlineData>>
             ELSE IF r[Other(key)] = "pending"
             THEN /\ osync' = r
                  /\ UNCHANGED <<syncStatus, offlineScans, offlineInspections, tried,
                                 offlineData>>
             ELSE IF Len(scanData) = 0 /\ Len(inspectionData) = 0
             THEN /\ syncStatus' = "success"
                  /\ osync' = IdleOSync
                  /\ UNCHANGED <<offlineScans, offlineInspections, tried, offlineData>>
             ELSE /\ tried' = tried \cup Range(scanData) \cup Range(inspectionData)
                  /\ offlineScans' = IF all THEN <<>> ELSE offlineScans
                  /\ offlineInspections' = IF all THEN <<>> ELSE offlineInspections
                  /\ offlineData' = IF all THEN NothingOffline ELSE offlineData
                  /\ osync' = [IdleOSync EXCEPT !.pc = "stamp"]
                  /\ UNCHANGED syncStatus
  /\ UNCHANGED <<sVars, aVars, lVars, rVars, tVars, iVars, dVars, lim, online, lastSync, networkStatus, probes,
                 presses, published, oclear, oload>>

OSyncReadScans == OSyncRead("scans")
OSyncReadInspections == OSyncRead("inspections")

\* Lines 176-191: setItem('lastSync') settles; the status becomes 'success',
\* or 'error' through the catch when it rejected.
OSyncStamp ==
  /\ osync.pc = "stamp"
  /\ \E ok \in BOOLEAN :
       /\ Outcome(ok)
       /\ CountFault(ok)
       /\ lastSync' = (lastSync \/ ok)
       /\ syncStatus' = IF ok THEN "success" ELSE SyncFailedStatus
  /\ osync' = IdleOSync
  /\ UNCHANGED <<sVars, aVars, lVars, rVars, tVars, iVars, dVars, lim, online, offlineScans, offlineInspections,
                 networkStatus, probes, presses, published, tried, offlineData, oclear, oload>>

\* clearOfflineData lines 194-199: the Clear Offline Data button (lines
\* 455-462) is enabled while a displayed count is not 0; the press opens the
\* dialog (one dialog at a time) and the handler returns.
clearOfflineData ==
  /\ offlineData # NothingOffline
  /\ \A b \in OClears : oclear[b].pc # "dialog"
  /\ \E c \in OClears :
       /\ oclear[c].pc = "none"
       /\ \A b \in 1..(c - 1) : oclear[b].pc # "none"
       /\ oclear' = [oclear EXCEPT ![c].pc = "dialog"]
  /\ UNCHANGED <<sVars, aVars, lVars, rVars, tVars, iVars, dVars, lim, faultsLeft, online, offlineScans,
                 offlineInspections, lastSync, networkStatus, syncStatus, probes, osync,
                 presses, published, tried, offlineData, oload>>

\* Lines 203-208: the user answers Clear, whatever the counts show by then,
\* and the two removeItem calls of Promise.all are issued.
ClearConfirmed ==
  /\ \E c \in OClears :
       /\ oclear[c].pc = "dialog"
       /\ oclear' = [oclear EXCEPT ![c].pc = "removing"]
  /\ UNCHANGED <<sVars, aVars, lVars, rVars, tVars, iVars, dVars, lim, faultsLeft, online, offlineScans,
                 offlineInspections, lastSync, networkStatus, syncStatus, probes, osync,
                 presses, published, tried, offlineData, oload>>

\* Line 199: the user answers Cancel.
ClearCancelled ==
  /\ \E c \in OClears :
       /\ oclear[c].pc = "dialog"
       /\ oclear' = [oclear EXCEPT ![c].pc = "done"]
  /\ UNCHANGED <<sVars, aVars, lVars, rVars, tVars, iVars, dVars, lim, faultsLeft, online, offlineScans,
                 offlineInspections, lastSync, networkStatus, syncStatus, probes, osync,
                 presses, published, tried, offlineData, oload>>

\* Lines 204-218: Promise.all rejects with the first rejection, and the catch
\* alerts 'Error'; when both calls have resolved the alert is 'Success'.
ClearAlert(r, ok, other) ==
  IF r.alert # "none" THEN r.alert
  ELSE IF ~ok THEN "Error"
  ELSE IF r[other] = "removed" THEN "Success" ELSE "none"

\* One removeItem of lines 205-208 settles, for key offline_scans ("scans") or
\* offline_inspections ("inspections"): the key is removed unless the call
\* rejects. When both have resolved, setOfflineData shows 0 items.
OfflineRemoveSettles(c, key) ==
  /\ oclear[c].pc = "removing"
  /\ oclear[c][key] = "pending"
  /\ \E ok \in BOOLEAN :
       /\ Outcome(ok)
       /\ CountFault(ok)
       /\ LET other == IF key = "scans" THEN "inspections" ELSE "scans"
              r == [oclear[c] EXCEPT ![key] = IF ok THEN "removed" ELSE "rejected"]
              shown == ClearAlert(r, ok, other)
          IN /\ oclear' = [oclear EXCEPT ![c] =
                             IF r[other] = "pending" THEN [r EXCEPT !.alert = shown]
                             ELSE [NoOClear EXCEPT !.pc = "done", !.alert = shown]]
             /\ offlineData' = IF ok /\ r[other] = "removed" THEN NothingOffline
                               ELSE offlineData
       /\ offlineScans' = IF ok /\ key = "scans" THEN <<>> ELSE offlineScans
       /\ offlineInspections' = IF ok /\ key = "inspections" THEN <<>> ELSE offlineInspections
  /\ UNCHANGED <<sVars, aVars, lVars, rVars, tVars, iVars, dVars, lim, online, lastSync, networkStatus,
                 syncStatus, probes, osync, presses, published, tried, oload>>

ClearScansSettles == \E c \in OClears : OfflineRemoveSettles(c, "scans")
ClearInspectionsSettles == \E c \in OClears : OfflineRemoveSettles(c, "inspections")

\* ------------------------------------- TrackingService: getAllTrackingEntries

IdleListing == [pc |-> "idle", n |-> 0, ml |-> <<>>, entries |-> <<>>,
                masterFailed |-> FALSE, missed |-> {}, got |-> {},
                outcome |-> "none", ret |-> <<>>]

\* getAllTrackingEntries line 199 is reached: getMasterTrackingList is awaited.
ListStart ==
  /\ listing.pc \in {"idle", "done"}
  /\ listing.n < lim.lists
  /\ listing' = [IdleListing EXCEPT !.pc = "master", !.n = listing.n + 1]
  /\ UNCHANGED <<sVars, aVars, tVars, iVars, dVars, oVars, rVars, lim, faultsLeft>>

\* The call returns its entries (line 213).
ListReturns(l) ==
  [l EXCEPT !.pc = "done", !.outcome = "returned", !.ret = l.entries,
            !.ml = <<>>, !.entries = <<>>]

\* A variant in which a rejected read of an entry key leaves the call as an
\* exception.
EntryReadFaultThrown(l) ==
  [l EXCEPT !.pc = "done", !.outcome = "threw", !.ml = <<>>, !.entries = <<>>]

\* Lines 208-210: the catch inside the loop logs a rejected getItem and the
\* loop goes on with the next id.
EntryReadFault(l) == IF Len(l.ml) = 1 THEN ListReturns(l) ELSE [l EXCEPT !.ml = Tail(l.ml)]

\* Lines 199-200 and 220-228: getMasterTrackingList settles, with [] for a
\* rejected read; an empty list ends the call at once.
ListMaster ==
  /\ listing.pc = "master"
  /\ \E ok \in BOOLEAN :
       /\ Outcome(ok)
       /\ CountFault(ok)
       /\ LET l == [listing EXCEPT !.ml = getMasterTrackingList(ok), !.masterFailed = ~ok,
                                   !.pc = "entry"]
          IN listing' = IF l.ml = <<>> THEN ListReturns(l) ELSE l
  /\ UNCHANGED <<sVars, aVars, tVars, iVars, dVars, oVars, rVars, lim>>

\* Lines 202-211: getItem for the next id of the list settles; a stored entry
\* is parsed and pushed, an absent one is passed over.
ListEntry ==
  /\ listing.pc = "entry"
  /\ \E ok \in BOOLEAN :
       /\ Outcome(ok)
       /\ CountFault(ok)
       /\ LET entryId == Head(listing.ml)
              entryData == entryId \in storeEntries
              l == IF entryData
                   THEN [listing EXCEPT !.entries = Append(listing.entries, entryId),
                                        !.got = listing.got \cup {entryId}]
                   ELSE listing
          IN listing' = IF ~ok
                        THEN EntryReadFault([listing EXCEPT !.missed = listing.missed \cup {entryId}])
                        ELSE IF Len(l.ml) = 1 THEN ListReturns(l)
                        ELSE [l EXCEPT !.ml = Tail(l.ml)]
  /\ UNCHANGED <<sVars, aVars, tVars, iVars, dVars, oVars, rVars, lim>>

ListNext == ListStart \/ ListMaster \/ ListEntry

\* -------------------------------------------------------- QRScannerScreen

\* A scanned text: TYPE-LOT-DATE-VENDOR-SERIAL with a known type, one with
\* fewer than five parts, one with an unknown type.
QRTexts == {"wellformed", "short", "unknownType"}

\* parseQRCode, part_006 lines 10-47: success for five parts and a known
\* type (getFittingDetails falls back to mock details, lines 70-74).
parseQRCode(qrData) == [success |-> qrData = "wellformed"]

\* Line 40: TrackingService (src/unnamed/part_007) defines no
\* logScanActivity, so the call throws a TypeError.
logScanActivity == "TypeError"

IdleScan == [pc |-> "idle", qrData |-> "none", parsed |-> FALSE, ignored |-> FALSE,
             logged |-> FALSE]

\* Lines 23-36: an event while not scanning or while processing is dropped;
\* otherwise scanning stops, processing starts and parseQRCode is awaited.
onBarCodeRead ==
  /\ scanEvents < lim.scanEvents
  /\ scanEvents' = scanEvents + 1
  /\ \E qrData \in QRTexts :
       IF ~scanning \/ processing
       THEN /\ scanCall' = [scanCall EXCEPT !.ignored = TRUE]
            /\ UNCHANGED <<scanning, processing>>
       ELSE /\ scanning' = FALSE
            /\ processing' = TRUE
            /\ scanCall' = [IdleScan EXCEPT !.pc = "parse", !.qrData = qrData]
  /\ UNCHANGED <<tVars, iVars, dVars, oVars, rVars, lVars, aVars, lim, faultsLeft,
                 alert, route>>

\* Lines 36-69: parseQRCode settles. On success line 40 is run: when it
\* returns the app navigates to FittingDetails, when it throws the catch of
\* line 57 shows the 'Scan Error' alert. Without success the 'Invalid QR
\* Code' alert is shown. The finally of line 67 ends processing.
ScanParsed ==
  /\ scanCall.pc = "parse"
  /\ LET fittingData == parseQRCode(scanCall.qrData)
         logged == fittingData.success /\ logScanActivity = "ok"
     IN /\ scanCall' = [scanCall EXCEPT !.pc = "done", !.parsed = fittingData.success,
                                !.logged = logged]
        /\ route' = IF logged THEN "FittingDetails" ELSE route
        /\ alert' = IF ~fittingData.success THEN "invalid"
                    ELSE IF logged THEN alert ELSE "error"
  /\ processing' = FALSE
  /\ UNCHANGED <<tVars, iVars, dVars, oVars, rVars, lVars, aVars, lim, faultsLeft,
                 scanning, scanEvents>>

\* Lines 52-53 and 63-64: the user answers the alert with 'Try Again' /
\* 'Retry', which sets scanning, or with 'Cancel'.
AlertAnswered ==
  /\ alert # "none"
  /\ alert' = "none"
  /\ \E again \in BOOLEAN : scanning' = (scanning \/ again)
  /\ UNCHANGED <<tVars, iVars, dVars, oVars, rVars, lVars, aVars, lim, faultsLeft,
                 processing, route, scanCall, scanEvents>>

\* resumeScanning (lines 76-79) is bound to no control of the screen.
ScannerNext == onBarCodeRead \/ ScanParsed \/ AlertAnswered

\* ----------------------------------------------------------- AuthService

\* generateMockToken line 98: 24 * 60 * 60.
DaySeconds == 86400

\* validateToken line 215: token.length > 100.
LongToken == 100

\* The time of the first login, in seconds since the epoch.
StartClock == 1700000000

\* The characters of the JSON text of the payload of lines 94-100 besides the
\* digits of iat and exp.
PayloadFrame == 100

\* The first three characters of that text, {"e , as character codes.
PayloadHead == <<123, 34, 101>>

Base64 == <<"A","B","C","D","E","F","G","H","I","J","K","L","M","N","O","P",
            "Q","R","S","T","U","V","W","X","Y","Z","a","b","c","d","e","f",
            "g","h","i","j","k","l","m","n","o","p","q","r","s","t","u","v",
            "w","x","y","z","0","1","2","3","4","5","6","7","8","9","+","/">>

\* btoa of three bytes: four characters of six bits each.
Btoa3(b) ==
  << Base64[(b[1] \div 4) + 1],
     Base64[((b[1] % 4) * 16 + b[2] \div 16) + 1],
     Base64[((b[2] % 16) * 4 + b[3] \div 64) + 1],
     Base64[(b[3] % 64) + 1] >>

RECURSIVE Digits(_)
Digits(n) == IF n < 10 THEN 1 ELSE 1 + Digits(n \div 10)

\* The length of btoa(text) for a text of n characters.
BtoaLength(n) == 4 * ((n + 2) \div 3)

\* generateMockToken lines 93-103: btoa(JSON.stringify(payload)), with iat
\* from the Date.now() of line 97 and exp from the one of line 98. The token
\* text is held as its first four characters, its length and the payload
\* atob and JSON.parse give back.
generateMockToken(seconds, later) ==
  LET payload == [iat |-> seconds, exp |-> later + DaySeconds]
  IN [head |-> Btoa3(PayloadHead),
      length |-> BtoaLength(PayloadFrame + Digits(payload.iat) + Digits(payload.exp)),
      dotted |-> FALSE,
      payload |-> payload]

NoToken == [head |-> <<>>, length |-> 0, dotted |-> FALSE, payload |-> [iat |-> 0, exp |-> 0]]

\* response.data.token of the server (lines 52-56 and 194-196): a text of three
\* parts joined by '.', beginning with eyJ; its middle part either decodes to a
\* payload with iat and exp, or is no base64 of a JSON text (payload 0 / 0).
ServerTokenLength == 23
ServerTokens(seconds) ==
  {[head |-> <<"e", "y", "J", "h">>, length |-> ServerTokenLength, dotted |-> TRUE,
    payload |-> payload] :
     payload \in {[iat |-> 0, exp |-> 0], [iat |-> seconds, exp |-> seconds + DaySeconds]}}

\* The second read of the clock within one call: the same second, or the
\* next one when a second ends between the two reads.
SecondRead(seconds) == {seconds, seconds + 1}

\* A token text that generateMockToken returned at some second.
IsMockToken(token) ==
  /\ token # NoToken
  /\ \E later \in SecondRead(token.payload.iat) :
       token = generateMockToken(token.payload.iat, later)

\* validateToken line 215: token.startsWith('eyJ') || token.length > 100.
LooksLikeJWT(token) ==
  \/ (Len(token.head) >= 3 /\ SubSeq(token.head, 1, 3) = <<"e", "y", "J">>)
  \/ token.length > LongToken

\* isTokenExpired lines 357-375: exp <= now for the payload decoded from the
\* token (without a '.') or from its middle part (with one); no token, and a
\* text that does not decode (the catch of line 372), count as expired.
isTokenExpired(token, seconds) ==
  IF token = NoToken \/ token.payload.exp = 0 THEN TRUE ELSE token.payload.exp <= seconds

\* getAuthHeaders lines 347-355 on a store that answers.
getAuthHeaders == IF authToken = NoToken THEN "{}" ELSE "Bearer"

IdleLogin == [pc |-> "idle", n |-> 0, token |-> NoToken]
IdleValidate == [pc |-> "idle", n |-> 0, token |-> NoToken, network |-> FALSE,
                 valid |-> FALSE, at |-> 0]
IdleLogout == [pc |-> "idle", n |-> 0, serverFailed |-> FALSE, faulted |-> FALSE,
               success |-> FALSE]
IdleRefresh == [pc |-> "idle", n |-> 0, token |-> NoToken, success |-> FALSE]
IdleUpdate == [pc |-> "idle", n |-> 0, token |-> FALSE, currentUser |-> FALSE,
               success |-> FALSE]

\* Time passes.
ClockAdvances ==
  /\ aticks < lim.aticks
  /\ aticks' = aticks + 1
  /\ \E d \in {1, DaySeconds - 1} : clock' = clock + d
  /\ UNCHANGED <<sVars, tVars, iVars, dVars, oVars, rVars, lVars, lim, faultsLeft,
                 authToken, userProfile, login, vcall, lcall, rfcall, ucall>>

\* LoginScreen lines 60-74. With the demo credentials login (lines 16-25)
\* returns a token of generateMockToken, and setItem('authToken') is awaited;
\* with other credentials login awaits authenticateWithAPI (line 28), whose
\* getDeviceId (lines 128-139, key deviceId) catches its own errors.
handleLogin ==
  /\ login.pc = "idle"
  /\ login.n < lim.logins
  /\ \E credentials \in {"demo", "other"} :
       IF credentials = "demo"
       THEN \E later \in SecondRead(clock) :
              /\ login' = [pc |-> "token", n |-> login.n + 1,
                           token |-> generateMockToken(clock, later)]
              /\ clock' = later
       ELSE /\ login' = [pc |-> "api", n |-> login.n + 1, token |-> NoToken]
            /\ UNCHANGED clock
  /\ UNCHANGED <<sVars, tVars, iVars, dVars, oVars, rVars, lVars, lim, faultsLeft,
                 authToken, userProfile, aticks, vcall, lcall, rfcall, ucall>>

\* authenticateWithAPI lines 41-90 and LoginScreen lines 72-82: the request
\* settles. With success the token of the server is to be stored; a refusal,
\* a timeout or a network error gives success=false and the screen alerts.
LoginResponse ==
  /\ login.pc = "api"
  /\ \/ \E token \in ServerTokens(clock) : login' = [login EXCEPT !.pc = "token", !.token = token]
     \/ login' = [login EXCEPT !.pc = "idle"]
  /\ UNCHANGED <<sVars, tVars, iVars, dVars, oVars, rVars, lVars, lim, faultsLeft,
                 authToken, userProfile, clock, aticks, vcall, lcall, rfcall, ucall>>

\* LoginScreen line 74 settles; line 75 awaits setItem('userProfile'). A
\* rejection goes to the catch of lines 84-86, which alerts: nothing is stored
\* and line 75 is not reached.
LoginStoresToken ==
  /\ login.pc = "token"
  /\ \E ok \in BOOLEAN :
       /\ Outcome(ok)
       /\ CountFault(ok)
       /\ authToken' = IF ok THEN login.token ELSE authToken
       /\ login' = [login EXCEPT !.pc = IF ok THEN "profile" ELSE "idle", !.token = NoToken]
  /\ UNCHANGED <<sVars, tVars, iVars, dVars, oVars, rVars, lVars, lim,
                 userProfile, clock, aticks, vcall, lcall, rfcall, ucall>>

\* LoginScreen line 75 settles; a rejection goes to the catch of lines 84-86
\* and the token stays stored without a profile.
LoginStoresProfile ==
  /\ login.pc = "profile"
  /\ \E ok \in BOOLEAN :
       /\ Outcome(ok)
       /\ CountFault(ok)
       /\ userProfile' = (userProfile \/ ok)
  /\ login' = [login EXCEPT !.pc = "idle"]
  /\ UNCHANGED <<sVars, tVars, iVars, dVars, oVars, rVars, lVars, lim,
                 authToken, clock, aticks, vcall, lcall, rfcall, ucall>>

\* validateToken line 208 is issued.
validateToken ==
  /\ vcall.pc \in {"idle", "done"}
  /\ vcall.n < lim.validates
  /\ vcall' = [IdleValidate EXCEPT !.pc = "getItem", !.n = vcall.n + 1]
  /\ UNCHANGED <<sVars, tVars, iVars, dVars, oVars, rVars, lVars, lim, faultsLeft,
                 authToken, userProfile, clock, aticks, login, lcall, rfcall, ucall>>

\* Lines 208-232: getItem settles. Without a token the call returns invalid;
\* a token that looks like a JWT is sent to the server (line 217); any other
\* token is decoded and its exp compared with the clock (lines 228-230).
ValidateRead ==
  /\ vcall.pc = "getItem"
  /\ \E ok \in BOOLEAN :
       /\ Outcome(ok)
       /\ CountFault(ok)
       /\ vcall' =
            IF ~ok \/ authToken = NoToken
            THEN [vcall EXCEPT !.pc = "done", !.valid = FALSE, !.at = clock]
            ELSE IF LooksLikeJWT(authToken)
            THEN [vcall EXCEPT !.pc = "network", !.token = authToken, !.network = TRUE]
            ELSE [vcall EXCEPT !.pc = "done", !.token = authToken, !.at = clock,
                               !.valid = (authToken.payload.exp > clock)]
  /\ UNCHANGED <<sVars, tVars, iVars, dVars, oVars, rVars, lVars, lim,
                 authToken, userProfile, clock, aticks, login, lcall, rfcall, ucall>>

\* Lines 217-224 and 233-236: the request settles; the answer of the server
\* is returned, and a request that failed or timed out gives invalid.
ValidateResponse ==
  /\ vcall.pc = "network"
  /\ \E answer \in {"valid", "invalid", "failed"} :
       vcall' = [vcall EXCEPT !.pc = "done", !.valid = (answer = "valid"), !.at = clock]
  /\ UNCHANGED <<sVars, tVars, iVars, dVars, oVars, rVars, lVars, lim, faultsLeft,
                 authToken, userProfile, clock, aticks, login, lcall, rfcall, ucall>>

\* logout line 147 is issued.
logout ==
  /\ lcall.pc \in {"idle", "done"}
  /\ lcall.n < lim.logouts
  /\ lcall' = [IdleLogout EXCEPT !.pc = "getItem", !.n = lcall.n + 1]
  /\ UNCHANGED <<sVars, tVars, iVars, dVars, oVars, rVars, lVars, lim, faultsLeft,
                 authToken, userProfile, clock, aticks, login, vcall, rfcall, ucall>>

\* Lines 147-149: getItem settles; with a token the server is told (line 152),
\* without one multiRemove is issued; a rejection goes to the catch of line
\* 173.
LogoutRead ==
  /\ lcall.pc = "getItem"
  /\ \E ok \in BOOLEAN :
       /\ Outcome(ok)
       /\ CountFault(ok)
       /\ lcall' = IF ~ok THEN [lcall EXCEPT !.pc = "done", !.faulted = TRUE]
                   ELSE IF authToken # NoToken THEN [lcall EXCEPT !.pc = "server"]
                   ELSE [lcall EXCEPT !.pc = "remove"]
  /\ UNCHANGED <<sVars, tVars, iVars, dVars, oVars, rVars, lVars, lim,
                 authToken, userProfile, clock, aticks, login, vcall, rfcall, ucall>>

\* A variant in which a failed server logout ends the call.
AfterServerLogoutAborts(answer) == IF answer = "ok" THEN "remove" ELSE "done"

\* Lines 158-161: the catch around the request only warns; multiRemove is
\* issued whatever the server answered.
AfterServerLogout(answer) == "remove"

\* Lines 152-161: the request to the server settles.
LogoutServer ==
  /\ lcall.pc = "server"
  /\ \E answer \in {"ok", "failed", "timeout"} :
       lcall' = [lcall EXCEPT !.pc = AfterServerLogout(answer),
                              !.serverFailed = (answer # "ok")]
  /\ UNCHANGED <<sVars, tVars, iVars, oVars, rVars, lVars, dVars, lim, faultsLeft,
                 authToken, userProfile, clock, aticks, login, vcall, rfcall, ucall>>

\* Lines 165-176: multiRemove of authToken, userProfile, dashboard_data and
\* inventory_data settles (nothing in the sources writes inventory_data); a
\* rejection goes to the catch of line 173.
LogoutRemove ==
  /\ lcall.pc = "remove"
  /\ \E ok \in BOOLEAN :
       /\ Outcome(ok)
       /\ CountFault(ok)
       /\ authToken' = IF ok THEN NoToken ELSE authToken
       /\ userProfile' = IF ok THEN FALSE ELSE userProfile
       /\ dashCache' = IF ok THEN NoCache ELSE dashCache
       /\ lcall' = [lcall EXCEPT !.pc = "done", !.success = ok, !.faulted = ~ok]
  /\ UNCHANGED <<sVars, tVars, iVars, oVars, rVars, lVars, lim, now, ticks, call, computes, dclears,
                 serial, clock, aticks, login, vcall, rfcall, ucall>>

\* refreshToken line 181 is issued.
refreshToken ==
  /\ rfcall.pc \in {"idle", "done"}
  /\ rfcall.n < lim.refreshes
  /\ rfcall' = [IdleRefresh EXCEPT !.pc = "getItem", !.n = rfcall.n + 1]
  /\ UNCHANGED <<sVars, tVars, iVars, dVars, oVars, rVars, lVars, lim, faultsLeft,
                 authToken, userProfile, clock, aticks, login, vcall, lcall, ucall>>

\* Lines 181-192: getItem settles; without a token the call returns
\* success=false, with one the request to /refresh is sent.
RefreshRead ==
  /\ rfcall.pc = "getItem"
  /\ \E ok \in BOOLEAN :
       /\ Outcome(ok)
       /\ CountFault(ok)
       /\ rfcall' = IF ok /\ authToken # NoToken THEN [rfcall EXCEPT !.pc = "server"]
                    ELSE [rfcall EXCEPT !.pc = "done"]
  /\ UNCHANGED <<sVars, tVars, iVars, dVars, oVars, rVars, lVars, lim,
                 authToken, userProfile, clock, aticks, login, vcall, lcall, ucall>>

\* Lines 187-199: the request settles; with success the token of the answer
\* is to be stored (line 195), otherwise the call returns success=false.
RefreshResponse ==
  /\ rfcall.pc = "server"
  /\ \/ \E token \in ServerTokens(clock) :
          rfcall' = [rfcall EXCEPT !.pc = "setItem", !.token = token]
     \/ rfcall' = [rfcall EXCEPT !.pc = "done"]
  /\ UNCHANGED <<sVars, tVars, iVars, dVars, oVars, rVars, lVars, lim, faultsLeft,
                 authToken, userProfile, clock, aticks, login, vcall, lcall, ucall>>

\* Lines 195-203: setItem('authToken') settles and the call returns success;
\* a rejection goes to the catch of line 200.
RefreshStores ==
  /\ rfcall.pc = "setItem"
  /\ \E ok \in BOOLEAN :
       /\ Outcome(ok)
       /\ CountFault(ok)
       /\ authToken' = IF ok THEN rfcall.token ELSE authToken
       /\ rfcall' = [rfcall EXCEPT !.pc = "done", !.token = NoToken, !.success = ok]
  /\ UNCHANGED <<sVars, tVars, iVars, dVars, oVars, rVars, lVars, lim,
                 userProfile, clock, aticks, login, vcall, lcall, ucall>>

\* updateProfile line 254 is issued.
updateProfile ==
  /\ ucall.pc \in {"idle", "done"}
  /\ ucall.n < lim.updates
  /\ ucall' = [IdleUpdate EXCEPT !.pc = "getToken", !.n = ucall.n + 1]
  /\ UNCHANGED <<sVars, tVars, iVars, dVars, oVars, rVars, lVars, lim, faultsLeft,
                 authToken, userProfile, clock, aticks, login, vcall, lcall, rfcall>>

\* Line 254 settles and getCurrentUser (line 255) is awaited; a rejection
\* goes to the catch of line 281.
UpdateReadToken ==
  /\ ucall.pc = "getToken"
  /\ \E ok \in BOOLEAN :
       /\ Outcome(ok)
       /\ CountFault(ok)
       /\ ucall' = IF ok THEN [ucall EXCEPT !.pc = "getUser", !.token = (authToken # NoToken)]
                   ELSE [ucall EXCEPT !.pc = "done"]
  /\ UNCHANGED <<sVars, tVars, iVars, dVars, oVars, rVars, lVars, lim,
                 authToken, userProfile, clock, aticks, login, vcall, lcall, rfcall>>

\* getCurrentUser lines 241-249 settles (null for a rejected read); without a
\* token or a profile the call returns 'User not authenticated' (lines
\* 257-259), otherwise the request to /profile is sent.
UpdateReadUser ==
  /\ ucall.pc = "getUser"
  /\ \E ok \in BOOLEAN :
       /\ Outcome(ok)
       /\ CountFault(ok)
       /\ LET currentUser == ok /\ userProfile
          IN ucall' = IF ucall.token /\ currentUser
                      THEN [ucall EXCEPT !.pc = "server", !.currentUser = TRUE]
                      ELSE [ucall EXCEPT !.pc = "done", !.token = FALSE]
  /\ UNCHANGED <<sVars, tVars, iVars, dVars, oVars, rVars, lVars, lim,
                 authToken, userProfile, clock, aticks, login, vcall, lcall, rfcall>>

\* Lines 262-279: the request settles; with success the merged profile is to
\* be stored (line 271), otherwise the call returns success=false.
UpdateResponse ==
  /\ ucall.pc = "server"
  /\ \E answer \in {"ok", "failed"} :
       ucall' = IF answer = "ok" THEN [ucall EXCEPT !.pc = "setItem"]
                ELSE [ucall EXCEPT !.pc = "done", !.token = FALSE, !.currentUser = FALSE]
  /\ UNCHANGED <<sVars, tVars, iVars, dVars, oVars, rVars, lVars, lim, faultsLeft,
                 authToken, userProfile, clock, aticks, login, vcall, lcall, rfcall>>

\* Lines 271-284: setItem('userProfile') settles and the call returns
\* success; a rejection goes to the catch of line 281.
UpdateStores ==
  /\ ucall.pc = "setItem"
  /\ \E ok \in BOOLEAN :
       /\ Outcome(ok)
       /\ CountFault(ok)
       /\ userProfile' = (userProfile \/ ok)
       /\ ucall' = [ucall EXCEPT !.pc = "done", !.token = FALSE, !.currentUser = FALSE,
                                 !.success = ok]
  /\ UNCHANGED <<sVars, tVars, iVars, dVars, oVars, rVars, lVars, lim,
                 authToken, clock, aticks, login, vcall, lcall, rfcall>>

LoginNext == handleLogin \/ LoginResponse \/ LoginStoresToken \/ LoginStoresProfile
RefreshNext == refreshToken \/ RefreshRead \/ RefreshResponse \/ RefreshStores
UpdateNext == updateProfile \/ UpdateReadToken \/ UpdateReadUser \/ UpdateResponse \/ UpdateStores
ValidateNext == validateToken \/ ValidateRead \/ ValidateResponse
LogoutNext == logout \/ LogoutRead \/ LogoutServer \/ LogoutRemove

\* The session: logins, logouts and the calls that write its keys.
AuthNext == LoginNext \/ LogoutNext \/ RefreshNext \/ UpdateNext

\* The token while time passes: logins, refreshes and validateToken.
TokenNext == ClockAdvances \/ LoginNext \/ RefreshNext \/ ValidateNext

\* ------------------------------------------------------- ReportsService

ReportIds == 1..lim.reports
RCalls == 1..lim.rcalls

\* A report is its id and one metric value. generatePerformanceReport, line
\* 161, divides by activityStats.totalActivities: the value is NaN when
\* there was no activity.
ReportValues == {"number", "NaN"}
Reports == [id : ReportIds, value : ReportValues]

\* null / undefined: no report, no stored text, no value settled.
NoReport == [id |-> 0, value |-> "none"]
Unsettled == [id |-> 0, value |-> "unsettled"]
Deleted == [id |-> 0, value |-> "deleted"]

\* JSON.stringify writes NaN as null; JSON.parse reads the text back.
JSONStringify(report) ==
  [id |-> report.id, value |-> IF report.value = "NaN" THEN "null" ELSE report.value]
JSONParse(text) == text

NoRCall == [op |-> "none", pc |-> "none", id |-> 0, r |-> NoReport,
            ret |-> NoReport, success |-> FALSE, mixed |-> FALSE]

\* Calls are taken in order of their start.
NextRCall(k) ==
  /\ rcall[k].pc = "none"
  /\ IF k = 1 THEN TRUE ELSE rcall[k - 1].pc # "none"

\* cacheReport and deleteReport calls for id that wait for the store.
Mutating(id) == {j \in RCalls : rcall[j].id = id /\ rcall[j].pc \in {"setItem", "removeItem"}}

\* Call k starts changing id: calls already changing it now overlap with it.
StartMutation(k, id, started) ==
  /\ rcall' = [j \in RCalls |->
                 IF j = k THEN [started EXCEPT !.mixed = (Mutating(id) # {})]
                 ELSE IF j \in Mutating(id) THEN [rcall[j] EXCEPT !.mixed = TRUE]
                 ELSE rcall[j]]
  /\ settled' = [settled EXCEPT ![id] = Unsettled]

RDone(k) == [rcall[k] EXCEPT !.pc = "done", !.r = NoReport, !.mixed = FALSE]

\* cacheReport, lines 553-555: the Map is set, then setItem is awaited.
cacheReport ==
  \E k \in RCalls, report \in Reports :
    /\ NextRCall(k)
    /\ reportCache' = [reportCache EXCEPT ![report.id] = report]
    /\ StartMutation(k, report.id, [NoRCall EXCEPT !.op = "cacheReport", !.pc = "setItem",
                                                   !.id = report.id, !.r = report])
    /\ UNCHANGED <<sVars, aVars, lVars, tVars, iVars, dVars, oVars, lim, faultsLeft, reportStore, rrestarts>>

\* cacheReport, lines 555-558: setItem settles; a rejection is only logged.
CacheStored ==
  \E k \in RCalls :
    /\ rcall[k].pc = "setItem"
    /\ \E ok \in BOOLEAN :
         /\ Outcome(ok)
         /\ CountFault(ok)
         /\ reportStore' = IF ok THEN [reportStore EXCEPT ![rcall[k].id] = JSONStringify(rcall[k].r)]
                           ELSE reportStore
         /\ settled' = IF ok /\ ~rcall[k].mixed
                       THEN [settled EXCEPT ![rcall[k].id] = rcall[k].r]
                       ELSE settled
    /\ rcall' = [rcall EXCEPT ![k] = RDone(k)]
    /\ UNCHANGED <<sVars, aVars, lVars, tVars, iVars, dVars, oVars, lim, reportCache, rrestarts>>

\* getCachedReport, lines 563-570: a hit in the Map returns at once, a miss
\* awaits getItem.
getCachedReport ==
  \E k \in RCalls, id \in ReportIds :
    /\ NextRCall(k)
    /\ rcall' = [rcall EXCEPT ![k] =
                   IF reportCache[id] # NoReport
                   THEN [NoRCall EXCEPT !.op = "getCachedReport", !.pc = "done", !.id = id,
                                        !.ret = reportCache[id]]
                   ELSE [NoRCall EXCEPT !.op = "getCachedReport", !.pc = "getItem", !.id = id]]
    /\ UNCHANGED <<sVars, aVars, lVars, tVars, iVars, dVars, oVars, lim, faultsLeft, reportCache, reportStore,
                   rrestarts, settled>>

\* getCachedReport, lines 570-581: getItem settles; a stored text is parsed,
\* put into the Map and returned; nothing stored or a rejection gives null.
GetItemSettles ==
  \E k \in RCalls :
    /\ rcall[k].pc = "getItem"
    /\ \E ok \in BOOLEAN :
         /\ Outcome(ok)
         /\ CountFault(ok)
         /\ LET id == rcall[k].id
                reportData == reportStore[id]
            IN IF ok /\ reportData # NoReport
               THEN /\ reportCache' = [reportCache EXCEPT ![id] = JSONParse(reportData)]
                    /\ rcall' = [rcall EXCEPT ![k] = [RDone(k) EXCEPT !.ret = JSONParse(reportData)]]
               ELSE /\ reportCache' = reportCache
                    /\ rcall' = [rcall EXCEPT ![k] = RDone(k)]
    /\ UNCHANGED <<sVars, aVars, lVars, tVars, iVars, dVars, oVars, lim, reportStore, rrestarts, settled>>

\* deleteReport, lines 619-621: the Map entry is deleted, then removeItem is
\* awaited.
deleteReport ==
  \E k \in RCalls, id \in ReportIds :
    /\ NextRCall(k)
    /\ reportCache' = [reportCache EXCEPT ![id] = NoReport]
    /\ StartMutation(k, id, [NoRCall EXCEPT !.op = "deleteReport", !.pc = "removeItem", !.id = id])
    /\ UNCHANGED <<sVars, aVars, lVars, tVars, iVars, dVars, oVars, lim, faultsLeft, reportStore, rrestarts>>

\* deleteReport, lines 621-626: removeItem settles; success is its outcome.
RemoveSettles ==
  \E k \in RCalls :
    /\ rcall[k].pc = "removeItem"
    /\ \E ok \in BOOLEAN :
         /\ Outcome(ok)
         /\ CountFault(ok)
         /\ reportStore' = IF ok THEN [reportStore EXCEPT ![rcall[k].id] = NoReport]
                           ELSE reportStore
         /\ settled' = IF ok /\ ~rcall[k].mixed
                       THEN [settled EXCEPT ![rcall[k].id] = Deleted]
                       ELSE settled
         /\ rcall' = [rcall EXCEPT ![k] = [RDone(k) EXCEPT !.success = ok]]
    /\ UNCHANGED <<sVars, aVars, lVars, tVars, iVars, dVars, oVars, lim, reportCache, rrestarts>>

\* The process restarts: the constructor, line 9, makes an empty Map; calls
\* in progress are gone; the AsyncStorage keys stay.
ReportsRestart ==
  /\ rrestarts < lim.rrestarts
  /\ rrestarts' = rrestarts + 1
  /\ reportCache' = [i \in ReportIds |-> NoReport]
  /\ rcall' = [k \in RCalls |-> IF rcall[k].pc \in {"none", "done"} THEN rcall[k] ELSE RDone(k)]
  /\ UNCHANGED <<sVars, aVars, lVars, tVars, iVars, dVars, oVars, lim, faultsLeft, reportStore, settled>>

\* ------------------------------------------------------- specifications

NoLim == [entries |-> 0, inFlight |-> 0, cycles |-> 0, clears |-> 0,
          submits |-> 0, isyncs |-> 0, calls |-> 0, ticks |-> 0, dclears |-> 0,
          throws |-> 0, allForms |-> FALSE, scans |-> 0, inspections |-> 0,
          probes |-> 0, presses |-> 0, reports |-> 0, rcalls |-> 0,
          rrestarts |-> 0, lists |-> 0,
          logins |-> 0, aticks |-> 0, validates |-> 0, logouts |-> 0,
          stored |-> 0, storedReports |-> 0, scanEvents |-> 0, sameMs |-> FALSE,
          oclears |-> 0, refreshes |-> 0, updates |-> 0]

\* The ids of n inspections submitted in an earlier run of the app, oldest
\* first: 1 - n, ..., 0.
Earlier(n) == [i \in 1..n |-> i - n]

\* The localInspections and inspectionReports keys as n earlier submissions
\* left them (absent when there were none).
EarlierInspections(n) ==
  [present |-> n > 0, list |-> [i \in 1..n |-> [id |-> Earlier(n)[i], inspectionId |-> Earlier(n)[i],
                                         synced |-> FALSE]]]
EarlierReports(n) == [present |-> n > 0, list |-> Earlier(n)]

\* The state after the services are constructed on an empty store, and at
\* the first render of OfflineScreen (useState, lines 28-34: 0 items shown,
\* status 'idle', no signal), before its mount effect has run.
Start(bounds, budget, cached) ==
  /\ lim = bounds
  /\ faultsLeft = budget
  /\ storeEntries = {}
  /\ storeMaster = [present |-> FALSE, list |-> <<>>]
  /\ trackingCache = {}
  /\ heap = <<<<>>>>
  /\ syncQueue = 1
  /\ nextId = 0
  /\ entryTimestamp = [e \in 1..bounds.entries |-> 0]
  /\ cap = [e \in 1..bounds.entries |-> NoCall]
  /\ cyc = [c \in 1..bounds.cycles |-> IdleCycle]
  /\ clr = IdleClear
  /\ imp = IdleImport
  /\ restarts = 0
  /\ pushed = {}
  /\ uploaded = {}
  /\ discarded = {}
  /\ pendingAtStop = {}
  /\ localInspections = EarlierInspections(bounds.stored)
  /\ inspectionReports = EarlierReports(bounds.storedReports)
  /\ nextSub = 0
  /\ sub = [s \in 1..bounds.submits |-> NoSubmit]
  /\ isync = [c \in 1..bounds.isyncs |-> NoISync]
  /\ udmAcked = {}
  /\ tmsAcked = {}
  /\ rejected = {}
  /\ dashCache = cached
  /\ now = 0
  /\ ticks = 0
  /\ call = [d \in 1..bounds.calls |-> NoDash]
  /\ computes = 0
  /\ dclears = 0
  /\ serial = TRUE
  /\ online = FALSE
  /\ offlineScans = [i \in 1..bounds.scans |-> [kind |-> "scan", id |-> i]]
  /\ offlineInspections = [i \in 1..bounds.inspections |-> [kind |-> "inspection", id |-> i]]
  /\ lastSync = FALSE
  /\ networkStatus = FALSE
  /\ syncStatus = "idle"
  /\ probes = 0
  /\ osync = IdleOSync
  /\ presses = 0
  /\ published = FALSE
  /\ tried = {}
  /\ offlineData = NothingOffline
  /\ oload = NoLoad
  /\ oclear = [c \in 1..bounds.oclears |-> NoOClear]
  /\ reportCache = [i \in 1..bounds.reports |-> NoReport]
  /\ reportStore = [i \in 1..bounds.reports |-> NoReport]
  /\ rcall = [k \in 1..bounds.rcalls |-> NoRCall]
  /\ rrestarts = 0
  /\ settled = [i \in 1..bounds.reports |-> Unsettled]
  /\ listing = IdleListing
  /\ scanning = TRUE
  /\ processing = FALSE
  /\ alert = "none"
  /\ route = "QRScanner"
  /\ scanCall = IdleScan
  /\ scanEvents = 0
  /\ authToken = NoToken
  /\ userProfile = FALSE
  /\ clock = StartClock
  /\ aticks = 0
  /\ login = IdleLogin
  /\ vcall = IdleValidate
  /\ lcall = IdleLogout
  /\ rfcall = IdleRefresh
  /\ ucall = IdleUpdate

CaptureNext ==
  \/ trackScan
  \/ trackInspection
  \/ trackMovement
  \/ \E e \in Ids : TrackScanCache(e)
  \/ \E e \in Ids : StoreEntryKey(e)
  \/ \E e \in Ids : StoreReadMaster(e)
  \/ \E e \in Ids : StoreWriteMaster(e)
  \/ \E e \in Ids : TrackReturn(e)

SyncNext ==
  \/ \E c \in Cycles : SyncStart(c)
  \/ \E c \in Cycles : SyncUpload(c)

ClearNext ==
  \/ ClearStart
  \/ ClearReadMaster
  \/ ClearRemoveEntry
  \/ ClearRemoveMaster
  \/ ClearFinish

ImportNext ==
  \/ ImportStart
  \/ ImportEntryKey
  \/ ImportReadMaster
  \/ ImportWriteMaster
  \/ ImportCache

\* Capture, sync cycles and clear in one process lifetime, storage healthy.
Init ==
  Start([NoLim EXCEPT !.entries = MaxEntries, !.inFlight = MaxInFlight,
                      !.cycles = MaxCycles, !.clears = MaxClears], 0, NoCache)

Next == CaptureNext \/ SyncNext \/ ClearNext

Spec == Init /\ [][Next]_vars

\* Capture and sync cycles, storage healthy.
CycleNext == CaptureNext \/ SyncNext

CycleInit ==
  Start([NoLim EXCEPT !.entries = CycleEntries, !.inFlight = CycleInFlight,
                      !.cycles = CycleRuns], 0, NoCache)

SpecCycle == CycleInit /\ [][CycleNext]_vars

\* Capture with a storage that may reject calls.
FaultInit ==
  Start([NoLim EXCEPT !.entries = FaultEntries, !.inFlight = FaultInFlight], MaxFaults,
        NoCache)

FaultNext == CaptureNext

SpecFault == FaultInit /\ [][FaultNext]_vars

\* Capture and sync cycles with restarts.
RestartNext == CaptureNext \/ SyncNext \/ Restart

SpecRestart == Init /\ [][RestartNext]_vars

\* Capture and import.
StoreNext == CaptureNext \/ ImportNext

\* Captures of which two may fall in one millisecond.
StoreInit ==
  Start([NoLim EXCEPT !.entries = MaxEntries, !.inFlight = MaxInFlight, !.sameMs = TRUE],
        0, NoCache)

SpecStore == StoreInit /\ [][StoreNext]_vars

\* InspectionService: submissions and sync cycles against the two portals.
InspectNext ==
  \/ submitInspection
  \/ \E s \in Subs : SubmitUDMToken(s)
  \/ \E s \in Subs : SubmitUDM(s)
  \/ \E s \in Subs : SubmitTMSToken(s)
  \/ \E s \in Subs : SubmitTMS(s)
  \/ \E s \in Subs : SubmitReadLocal(s)
  \/ \E s \in Subs : SubmitWriteLocal(s)
  \/ \E s \in Subs : SubmitReadReports(s)
  \/ \E s \in Subs : SubmitWriteReports(s)
  \/ \E c \in ISyncs : syncPendingInspections(c)
  \/ \E c \in ISyncs : ISyncRead(c)
  \/ \E c \in ISyncs : ISyncUDMToken(c)
  \/ \E c \in ISyncs : ISyncUDM(c)
  \/ \E c \in ISyncs : ISyncTMSToken(c)
  \/ \E c \in ISyncs : ISyncTMS(c)
  \/ \E c \in ISyncs : ISyncWrite(c)

InspectInit ==
  Start([NoLim EXCEPT !.submits = MaxSubmits, !.isyncs = MaxISyncs, !.sameMs = TRUE],
        0, NoCache)

SpecInspect == InspectInit /\ [][InspectNext]_vars

\* InspectionService: one submission and one sync cycle, with a storage that
\* may reject calls.
PortalInit ==
  Start([NoLim EXCEPT !.submits = PortalSubmits, !.isyncs = PortalISyncs], MaxFaults, NoCache)

SpecPortal == PortalInit /\ [][InspectNext]_vars

\* InspectionService: submissions of every form.
FormNext ==
  \/ submitInspection
  \/ \E s \in Subs : SubmitUDMToken(s)
  \/ \E s \in Subs : SubmitUDM(s)
  \/ \E s \in Subs : SubmitTMSToken(s)
  \/ \E s \in Subs : SubmitTMS(s)
  \/ \E s \in Subs : SubmitReadLocal(s)
  \/ \E s \in Subs : SubmitWriteLocal(s)
  \/ \E s \in Subs : SubmitReadReports(s)
  \/ \E s \in Subs : SubmitWriteReports(s)

FormInit ==
  Start([NoLim EXCEPT !.submits = FormSubmits, !.allForms = TRUE], 0, NoCache)

SpecForm == FormInit /\ [][FormNext]_vars

\* DashboardService: calls, the clock, clearCache and a storage that may reject.
DashNext ==
  \/ Tick
  \/ clearCache
  \/ \E d \in Calls : getDashboardData(d)
  \/ \E d \in Calls : DashRead(d)
  \/ \E d \in Calls : DashGenerated(d)
  \/ \E d \in Calls : DashCached(d)

\* The store outlives the process: the run starts with no dashboard_data key
\* or with the entry an earlier run of the app stored.
DashInit ==
  \E persisted \in BOOLEAN :
    Start([NoLim EXCEPT !.calls = MaxDashCalls, !.ticks = MaxTicks,
                        !.dclears = MaxDashClears], MaxFaults,
          IF persisted THEN [NoCache EXCEPT !.present = TRUE] ELSE NoCache)

SpecDash == DashInit /\ [][DashNext]_vars

\* DashboardService on a healthy store, with a computation that may throw.
DashFailInit ==
  \E persisted \in BOOLEAN :
    Start([NoLim EXCEPT !.calls = MaxDashCalls, !.ticks = MaxTicks,
                        !.dclears = MaxDashClears, !.throws = MaxDashThrows], 0,
          IF persisted THEN [NoCache EXCEPT !.present = TRUE] ELSE NoCache)

SpecDashFail == DashFailInit /\ [][DashNext]_vars

\* OfflineScreen: the probe, the device's connection and syncOfflineData.
OfflineNext ==
  \/ ConnectivityChanges
  \/ checkNetworkStatus
  \/ ProbeSettles
  \/ syncOfflineData
  \/ loadOfflineData
  \/ OLoadScans
  \/ OLoadInspections
  \/ OSyncReadScans
  \/ OSyncReadInspections
  \/ OSyncStamp
  \/ clearOfflineData
  \/ ClearConfirmed
  \/ ClearCancelled
  \/ ClearScansSettles
  \/ ClearInspectionsSettles

\* TrackingService captures and sync cycles beside a mounted OfflineScreen.
SignalNext == CaptureNext \/ SyncNext \/ OfflineNext

\* The store outlives the process: the screen mounts on whatever offline
\* items the keys hold.
SignalInit ==
  \E n \in 0..MaxOfflineScans, m \in 0..MaxOfflineInspections :
    Start([NoLim EXCEPT !.entries = SignalEntries, !.inFlight = 1,
                        !.cycles = SignalCycles, !.scans = n, !.inspections = m,
                        !.probes = MaxProbes, !.presses = MaxPresses,
                        !.oclears = SignalClears], 0, NoCache)

SpecSignal == SignalInit /\ [][SignalNext]_vars

\* OfflineScreen alone. The interval of line 42 keeps calling
\* checkNetworkStatus, and a fetch or storage call that was issued settles;
\* nothing obliges the user to press Sync Data or the device to stay connected.
OfflineInit ==
  \E n \in 0..MaxOfflineScans, m \in 0..MaxOfflineInspections :
    Start([NoLim EXCEPT !.scans = n, !.inspections = m,
                        !.probes = MaxProbes, !.presses = MaxPresses,
                        !.oclears = MaxOfflineClears], 0, NoCache)

SpecOffline ==
  /\ OfflineInit
  /\ [][OfflineNext]_vars
  /\ WF_vars(checkNetworkStatus)
  /\ WF_vars(ProbeSettles)
  /\ WF_vars(loadOfflineData)
  /\ WF_vars(OLoadScans)
  /\ WF_vars(OLoadInspections)
  /\ WF_vars(OSyncReadScans)
  /\ WF_vars(OSyncReadInspections)
  /\ WF_vars(OSyncStamp)
  /\ WF_vars(ClearScansSettles)
  /\ WF_vars(ClearInspectionsSettles)

\* OfflineScreen with a storage that may reject calls.
OfflineFaultInit ==
  \E n \in 0..FaultOfflineScans :
    Start([NoLim EXCEPT !.scans = n, !.probes = MaxProbes, !.presses = FaultPresses,
                        !.oclears = FaultClears], MaxFaults, NoCache)

SpecOfflineFault ==
  /\ OfflineFaultInit
  /\ [][OfflineNext]_vars
  /\ WF_vars(checkNetworkStatus)
  /\ WF_vars(ProbeSettles)
  /\ WF_vars(loadOfflineData)
  /\ WF_vars(OLoadScans)
  /\ WF_vars(OLoadInspections)
  /\ WF_vars(OSyncReadScans)
  /\ WF_vars(OSyncReadInspections)
  /\ WF_vars(OSyncStamp)
  /\ WF_vars(ClearScansSettles)
  /\ WF_vars(ClearInspectionsSettles)

ReportsNext ==
  \/ cacheReport
  \/ CacheStored
  \/ getCachedReport
  \/ GetItemSettles
  \/ deleteReport
  \/ RemoveSettles
  \/ ReportsRestart

\* ReportsService alone, on an empty store.
ReportsInit ==
  Start([NoLim EXCEPT !.reports = MaxReportIds, !.rcalls = MaxReportCalls,
                      !.rrestarts = MaxReportRestarts], MaxFaults, NoCache)

SpecReports == ReportsInit /\ [][ReportsNext]_vars

\* Captures and getAllTrackingEntries calls with a storage that may reject.
ListingNext == CaptureNext \/ ListNext

ListingInit ==
  Start([NoLim EXCEPT !.entries = ListEntries, !.inFlight = 1, !.lists = ListCalls],
        MaxFaults, NoCache)

SpecListing == ListingInit /\ [][ListingNext]_vars

\* Submissions alone, overlapping or not, on the history that earlier
\* submissions left: none, one short of the limit, or the limit.
HistoryInit ==
  \E n \in {0, LocalLimit - 1, LocalLimit}, m \in {0, ReportLimit - 1, ReportLimit} :
    Start([NoLim EXCEPT !.submits = HistorySubmits, !.stored = n, !.storedReports = m,
                        !.sameMs = TRUE],
          0, NoCache)

SpecHistory == HistoryInit /\ [][FormNext]_vars

\* QRScannerScreen alone.
ScannerInit ==
  Start([NoLim EXCEPT !.scanEvents = MaxScanEvents], 0, NoCache)

SpecScanner == ScannerInit /\ [][ScannerNext]_vars

\* The session: login, refreshToken, updateProfile and logout, with a storage
\* that may reject calls and a dashboard cache that may have been written
\* before.
AuthInit ==
  \E persisted \in BOOLEAN :
    Start([NoLim EXCEPT !.logins = MaxLogins, !.logouts = MaxLogouts,
                        !.refreshes = MaxRefreshes, !.updates = MaxUpdates], MaxFaults,
          IF persisted THEN [NoCache EXCEPT !.present = TRUE] ELSE NoCache)

\* Logins, refreshes and validateToken calls while the clock advances, with a
\* storage that may reject calls.
TokenInit ==
  Start([NoLim EXCEPT !.logins = MaxLogins, !.aticks = MaxAuthTicks,
                      !.validates = MaxValidates, !.refreshes = MaxRefreshes], MaxFaults,
        NoCache)

SpecToken == TokenInit /\ [][TokenNext]_vars

SpecAuth == AuthInit /\ [][AuthNext]_vars

\* ------------------------------------------------------------- properties

\* C2: an entry that a capture appended to the sync queue is absent from the
\* queue only if an upload of it succeeded or clearTrackingData emptied the
\* queue after it was appended.
NoEntryLostFromQueue ==
  \A e \in pushed : e \in Range(Queue) \/ e \in uploaded \/ e \in discarded

\* C3: the persisted master list and the sync queue hold each id at most once.
EnqueueIdempotentById ==
  \A e \in Ids : Count(storeMaster.list, e) <= 1 /\ Count(Queue, e) <= 1

\* C4: an entry that was queued and not uploaded when the process stopped is
\* a member of the sync queue of the restarted service until it is uploaded.
QueueSurvivesRestart ==
  \A e \in pendingAtStop : e \in Range(Queue) \/ e \in uploaded

\* The entries of a cycle's starting queue whose upload failed in the cycle,
\* in their original order.
FailedIn(r) == {r.outcomes[i].id : i \in {j \in DOMAIN r.outcomes : ~r.outcomes[j].ok}}
SucceededIn(r) == {r.outcomes[i].id : i \in {j \in DOMAIN r.outcomes : r.outcomes[j].ok}}
FailedOf(r) == LET Failed(e) == e \in FailedIn(r) IN SelectSeq(r.startQ, Failed)

\* C7: when a syncPendingEntries cycle completes and no step of another call
\* ran between its start and its end, the sync queue is exactly the entries
\* whose upload failed in the cycle, in their original order, and holds no
\* entry whose upload succeeded.
CycleLeavesFailedEntries ==
  [][\A c \in Cycles :
       (cyc[c].pc = "await" /\ cyc'[c].pc = "done" /\ cyc'[c].clean)
       => /\ heap'[syncQueue'] = FailedOf(cyc'[c])
          /\ Range(heap'[syncQueue']) \cap SucceededIn(cyc'[c]) = {}
          /\ FailedIn(cyc'[c]) \cup SucceededIn(cyc'[c]) = Range(cyc'[c].startQ)]_vars

\* C7 witness: three queued entries, the upload of 1 and 3 succeeded and that
\* of 2 failed in an uninterleaved cycle, and the queue is <<2>>.
CycleLeavesFailedEntriesWitness ==
  \E c \in Cycles :
    /\ cyc[c].pc = "done" /\ cyc[c].clean
    /\ cyc[c].startQ = <<1, 2, 3>>
    /\ cyc[c].outcomes = <<[id |-> 1, ok |-> TRUE], [id |-> 2, ok |-> FALSE],
                           [id |-> 3, ok |-> TRUE]>>
    /\ Queue = <<2>>

\* C8: a capture call during which a storage write was rejected returns the
\* entry (not null), and the entry is in the entry cache and in the sync queue.
CaptureSurvivesStoreFault ==
  \A e \in Ids :
    (cap[e].pc = "done" /\ cap[e].faulted)
    => cap[e].ret = "entry" /\ e \in trackingCache /\ e \in Range(Queue)

\* C8 witness: such a call has returned, for a rejected entry write (the
\* entry key is absent from the store).
CaptureSurvivesStoreFaultWitness ==
  \E e \in Ids :
    /\ cap[e].pc = "done" /\ cap[e].faulted /\ e \notin storeEntries
    /\ cap[e].ret = "entry" /\ e \in trackingCache /\ e \in Range(Queue)

\* The stored inspections that are marked synced.
StoredSynced == {localInspections.list[i].id :
                   i \in {j \in DOMAIN localInspections.list :
                            localInspections.list[j].synced}}

\* C1: an inspection is marked synced only if both its UDM upload and its TMS
\* upload have succeeded; a success on one endpoint alone leaves it pending.
SyncedOnlyIfBothPortals ==
  \A i \in StoredSynced : i \in udmAcked /\ i \in tmsAcked

\* C9: an inspection an upload of which a portal rejected is not attempted
\* again: no sync cycle starts an upload of it.
RejectedNeverRetried ==
  \A c \in ISyncs : isync[c].pc = "udm" => Current(c) \notin rejected

\* C10: a capture operation is never blocked on a remote endpoint call: no
\* submitInspection call is waiting for a portal to answer or time out.
CaptureNeverAwaitsNetwork ==
  \A s \in Subs : sub[s].pc \notin {"udm", "tms"}

\* C5: getDashboardData calls issued before the first one completes share one
\* computation: at no time have two calls in progress each invoked
\* generateDashboardData.
SingleFlight ==
  Cardinality({d \in Calls : call[d].pc \in {"gen", "cache"}}) <= 1

\* The calls that have returned.
Returned == {d \in Calls : call[d].pc = "done"}

Persisted == {s \in Subs : \/ sub[s].pc \in {"readReports", "writeReports"}
                           \/ sub[s].pc = "done" /\ sub[s].ret = "ok"}

\* The ids of the stored localInspections list.
StoredIds == {localInspections.list[i].id : i \in DOMAIN localInspections.list}

\* C11: a locally stored inspection is absent from the stored list only after
\* its upload was confirmed on both portals (the service has no clear of
\* localInspections): every inspection written by submitInspection and not
\* yet acknowledged by UDM and TMS is still in the stored list.
StoredUntilSynced ==
  \A s \in Persisted : s \in StoredIds \/ (s \in udmAcked /\ s \in tmsAcked)

\* getAllTrackingEntries lines 197-218 on a store that answers: the ids of the
\* master list whose tracking_<id> key is present, in the order of the list.
getAllTrackingEntries ==
  LET Present(e) == e \in storeEntries
  IN SelectSeq(getMasterTrackingList(TRUE), Present)

\* C12: once capture calls have completed, however their storeTrackingEntry
\* calls overlapped, the persisted master list holds the id of each of them
\* and getAllTrackingEntries returns each of them.
NoLostMasterUpdate ==
  \A e \in Ids : cap[e].pc = "done" => e \in Range(getAllTrackingEntries)

\* The steps in which a call is inside submitToUDM (token read or request)
\* and inside submitToTMS.
InUDM == {"udmToken", "udm"}
InTMS == {"tmsToken", "tms"}

\* Whatever submitToUDM gave, a submission or a sync iteration that leaves it
\* enters submitToTMS for the same inspection.
TMSAttemptedAfterUDM ==
  /\ \A s \in Subs :
       (sub[s].pc \in InUDM /\ sub'[s].pc \notin InUDM) => sub'[s].pc = "tmsToken"
  /\ \A c \in ISyncs :
       (isync[c].pc \in InUDM /\ isync'[c].pc \notin InUDM)
       => isync'[c].pc = "tmsToken" /\ isync'[c].k = isync[c].k

\* submitInspection holds and returns the two outcomes separately: the udm
\* result is that of the UDM portal, the tms result that of the TMS portal,
\* and neither changes afterwards.
SubmissionReportsEach ==
  \A s \in Subs :
    /\ (sub[s].pc = "udm" /\ sub'[s].pc # "udm") => (sub'[s].udm <=> s \in udmAcked')
    /\ (sub[s].pc = "tms" /\ sub'[s].pc # "tms")
       => sub'[s].udm = sub[s].udm /\ (sub'[s].tms <=> s \in tmsAcked')
    /\ (sub'[s].pc = "done" /\ sub'[s].ret = "ok")
       => sub'[s].udm = sub[s].udm /\ sub'[s].tms = sub[s].tms

\* What a sync iteration adds to the cycle's report (the counts of synced and
\* failed inspections) tells a failed TMS upload from a successful one: after
\* a successful UDM upload, an iteration whose TMS request failed is not
\* counted as the iteration whose TMS request succeeded is (synced + 1).
IterationReportsEach ==
  \A c \in ISyncs :
    (/\ isync[c].pc = "tms" /\ isync'[c].pc # "tms"
     /\ isync[c].udm
     /\ Current(c) \notin tmsAcked')
    => <<isync'[c].synced, isync'[c].failed>> # <<isync[c].synced + 1, isync[c].failed>>

\* C13: in submitInspection and in every iteration of syncPendingInspections
\* the TMS upload is attempted whatever the UDM upload gave, and each
\* portal's outcome is reported separately.
EndpointIndependence ==
  [][TMSAttemptedAfterUDM /\ SubmissionReportsEach /\ IterationReportsEach]_vars

\* C14: within one sync cycle the entries are attempted in the order in which
\* they were captured (ids are given in the order of the capture calls; line
\* 305 builds them from Date.now()): an entry is never attempted before one
\* captured earlier that the same cycle attempts.
AttemptsInCaptureOrder ==
  \A c \in Cycles :
    \A i, j \in DOMAIN cyc[c].outcomes :
      i < j => cyc[c].outcomes[i].id < cyc[c].outcomes[j].id

\* C15: a getDashboardData call whose computation throws leaves the stored
\* entry (value and timestamp, or its absence) as it was and returns the
\* fallback; the fallback is never the stored value nor the value of a cache
\* hit; and a later read of a healthy store returns the entry that is present
\* and inside its window, and computes otherwise.
FailureDoesNotPoisonCache ==
  /\ [][\A d \in Calls :
         /\ (call[d].pc = "gen" /\ call'[d].pc = "done")
            => dashCache' = dashCache /\ call'[d].ret = Fallback
         /\ (FailedCalls # {} /\ call[d].pc = "read" /\ call'[d].pc # "read"
             /\ faultsLeft' = faultsLeft)
            => IF dashCache.present /\ now - dashCache.timestamp < CacheExpiry
               THEN /\ call'[d].pc = "done" /\ call'[d].ret = dashCache.data
                    /\ call'[d].ret # Fallback
               ELSE call'[d].pc = "gen" /\ computes' = computes + 1]_vars
  /\ [](/\ dashCache.present => dashCache.data # Fallback
        /\ \A d \in Calls : call[d].hit => call[d].ret # Fallback)

\* C15 witness: a call returned the fallback, and a call that read the store
\* after that failure recomputed, returned the new value and stored it.
FailureDoesNotPoisonCacheWitness ==
  \E d1, d2 \in Calls :
    /\ call[d1].pc = "done" /\ call[d1].ret = Fallback
    /\ call[d2].pc = "done" /\ call[d2].afterFailure /\ ~call[d2].hit
    /\ call[d2].ret # Fallback
    /\ dashCache = [present |-> TRUE, data |-> call[d2].ret, timestamp |-> now]

\* C16: a submission for which validateInspectionData reported an error has
\* returned success=false, and no portal was asked, nothing was written to
\* localInspections and no report was created for it; a submission without
\* errors is not turned away.
InvalidNeverEnters ==
  \A s \in Subs :
    /\ sub[s].errors # <<>>
       => /\ sub[s].pc = "done" /\ sub[s].ret = "invalid"
          /\ ~sub[s].udm /\ ~sub[s].tms
          /\ s \notin udmAcked \cup tmsAcked \cup rejected
          /\ s \notin StoredIds
          /\ s \notin Range(inspectionReports.list)
    /\ (sub[s].pc # "none" /\ sub[s].errors = <<>>) => sub[s].ret # "invalid"

\* C16 witness: a form with a well-formed QR code and names whose only error
\* is a width that is not a number was turned away, and nothing is stored.
InvalidNeverEntersWitness ==
  \E s \in Subs :
    /\ sub[s].errors = <<"Invalid width measurement">>
    /\ sub[s].pc = "done" /\ sub[s].ret = "invalid"
    /\ ~localInspections.present /\ ~inspectionReports.present

\* A step in which sync cycle c of TrackingService starts an upload attempt.
AttemptStarts(c) ==
  \/ cyc[c].pc = "idle" /\ cyc'[c].pc = "await"
  \/ cyc[c].pc = "await" /\ cyc'[c].pc = "await" /\ cyc'[c].idx # cyc[c].idx

\* C17: while the online signal last published by the probe is false, no sync
\* cycle starts an upload attempt, and no syncOfflineData run starts: the
\* sync status and lastSync stay as they are and no offline item is tried.
SignalConsultedBeforeSync ==
  [][(published /\ ~networkStatus)
     => /\ \A c \in Cycles : ~AttemptStarts(c)
        /\ osync.pc = "idle"
           => /\ osync'.pc = "idle"
              /\ UNCHANGED <<syncStatus, lastSync, tried>>]_vars

\* The items of the two offline lists.
PendingOffline == Range(offlineScans) \cup Range(offlineInspections)

\* C18: when the probe reports online from some time on, an upload of every
\* pending offline item is eventually attempted, without the user pressing
\* Sync Data.
AutoSyncWhenOnline ==
  <>[]networkStatus => <>(PendingOffline \subseteq tried)

\* The entry whose upload sync cycle c of TrackingService is waiting for.
Uploading(c) == heap[cyc[c].arr][cyc[c].idx]

\* C19: upload attempts for one entry never overlap: no two sync cycles wait
\* at the same time for an upload of the same entry.
UploadsOfOneEntrySequential ==
  \A c1, c2 \in Cycles :
    (c1 # c2 /\ cyc[c1].pc = "await" /\ cyc[c2].pc = "await")
    => Uploading(c1) # Uploading(c2)

\* Call k is a getCachedReport call that returns in this step, without a
\* rejection of the store.
GetReturns(k) ==
  /\ rcall[k].pc # "done"
  /\ rcall'[k].pc = "done"
  /\ rcall'[k].op = "getCachedReport"
  /\ faultsLeft' = faultsLeft
  /\ rrestarts' = rrestarts

\* C20: getCachedReport is a read-through of the report cache: a report found
\* in the store on a miss is put into the in-memory cache and returned; once
\* cacheReport(r) has stored r, also across a restart, getCachedReport(r.id)
\* returns r; after a successful deleteReport(id) it returns null.
ReadThroughContract ==
  [][\A k \in RCalls :
       GetReturns(k) =>
         LET id == rcall'[k].id
             ret == rcall'[k].ret
         IN /\ (rcall[k].pc = "getItem" /\ ret # NoReport) => reportCache'[id] = ret
            /\ settled[id] \in Reports => ret = settled[id]
            /\ settled[id] = Deleted => ret = NoReport]_vars

\* trackScan line 15 (trackInspection alike): the timestamp of the entry with
\* id e, taken in the step that generates the id.
Timestamp(e) == entryTimestamp[e]

\* C21: getAllTrackingEntries lists every persisted entry exactly once, most
\* recent first: each entry whose capture completed is in the result, no entry
\* is in it twice, and timestamps do not increase along the result.
ListedOnceMostRecentFirst ==
  LET listed == getAllTrackingEntries
  IN /\ \A e \in Ids : cap[e].pc = "done" => e \in Range(listed)
     /\ \A i, j \in DOMAIN listed :
          i < j => listed[i] # listed[j] /\ Timestamp(listed[i]) >= Timestamp(listed[j])

\* C22: a read failure of the store degrades the result of
\* getAllTrackingEntries and never reaches the caller: the call returns; with
\* a failed read of the master list it returns the empty list; an entry whose
\* read failed is left out and every entry that was read is returned.
ReadFailureDegrades ==
  listing.pc = "done"
  => /\ listing.outcome = "returned"
     /\ listing.masterFailed => listing.ret = <<>>
     /\ Range(listing.ret) = listing.got
     /\ listing.missed \cap listing.got = {}

\* C22 witness: a call has returned entries although the read of another
\* entry of the master list was rejected.
ReadFailureDegradesWitness ==
  /\ listing.pc = "done"
  /\ listing.outcome = "returned"
  /\ listing.missed # {}
  /\ listing.ret # <<>>
  /\ Range(listing.ret) = listing.got

\* C23: syncPendingInspections does not upload again what both portals have:
\* no cycle waits for submitToUDM of an inspection whose upload UDM and TMS
\* have both acknowledged before.
NoReuploadOfSynced ==
  \A c \in ISyncs :
    isync[c].pc = "udm" => ~(Current(c) \in udmAcked /\ Current(c) \in tmsAcked)

\* C24: a syncOfflineData run that ended with syncStatus 'success' and a
\* written lastSync has uploaded every offline item and left the offline_scans
\* and offline_inspections stores empty.
SuccessMeansAllUploaded ==
  (osync.pc = "idle" /\ syncStatus = "success" /\ lastSync)
  => offlineScans = <<>> /\ offlineInspections = <<>>

\* C25: the sync status does not stay 'syncing': a run that set it reaches
\* 'success' or 'error' (with no data, with failed uploads, with a rejected
\* storage call), and without the network signal no step sets the status to
\* 'syncing'.
SyncingEnds ==
  /\ (syncStatus = "syncing") ~> (syncStatus \in {"success", "error"})
  /\ [][~networkStatus => (syncStatus' = "syncing" => syncStatus = "syncing")]_vars
  /\ [](osync.pc = "idle" => syncStatus # "syncing")

\* C25 witness: a run has ended in 'error' through the catch, with items
\* still stored.
SyncingEndsWitness ==
  /\ presses > 0
  /\ osync.pc = "idle"
  /\ syncStatus = "error"
  /\ offlineScans # <<>>

\* C26: for a stored token of generateMockToken, validateToken decides by
\* the expiry alone: it makes no network call, and it returns valid exactly
\* when exp > now, which is when isTokenExpired says the token is not expired.
DemoTokenValidatedLocally ==
  (vcall.pc \in {"network", "done"} /\ IsMockToken(vcall.token))
  => /\ ~vcall.network
     /\ vcall.pc = "done" =>
          /\ vcall.valid = (vcall.token.payload.exp > vcall.at)
          /\ vcall.valid = ~isTokenExpired(vcall.token, vcall.at)

\* How a logout call ends in this step, if it does.
LogoutReturns == lcall.pc # "done" /\ lcall'.pc = "done"

\* C27: a logout that returns success leaves authToken, userProfile and
\* dashboard_data absent (getAuthHeaders gives {} and the dashboard cache is
\* a miss), and the answer of the server has no part in it: a logout whose
\* storage calls all settled returns success also when the server call failed
\* or timed out.
LocalLogoutIndependentOfServer ==
  /\ [][(LogoutReturns /\ lcall'.success)
          => /\ authToken' = NoToken
             /\ userProfile' = FALSE
             /\ ~dashCache'.present
             /\ getAuthHeaders' = "{}"]_vars
  /\ [][(LogoutReturns /\ ~lcall'.faulted) => lcall'.success]_vars

\* C27 witness: a logout has returned success after the server call failed,
\* and the keys are absent.
LocalLogoutIndependentOfServerWitness ==
  /\ lcall.pc = "done"
  /\ lcall.success
  /\ lcall.serverFailed
  /\ authToken = NoToken
  /\ ~userProfile
  /\ ~dashCache.present

\* The submissions that returned success, in the order of their calls.
Submitted == SelectSeq([s \in 1..nextSub |-> s], LAMBDA s : sub[s].pc = "done" /\ sub[s].ret = "ok")

\* C28: the local history is bounded and keeps the most recent items: the
\* stored localInspections list never has more than 100 elements and the
\* stored inspectionReports list never more than 50, and once the
\* submitInspection calls have returned each list holds the last 100 (50) of
\* the items stored so far, the oldest being the ones dropped.
BoundedRecentHistory ==
  LET ids == [i \in DOMAIN localInspections.list |-> localInspections.list[i].id]
      reports == inspectionReports.list
  IN /\ Len(ids) <= LocalLimit
     /\ Len(reports) <= ReportLimit
     /\ (\A s \in Subs : sub[s].pc \in {"none", "done"})
        => /\ Len(ids) = Len(KeepLast(Earlier(lim.stored) \o Submitted, LocalLimit))
           /\ Range(ids) = Range(KeepLast(Earlier(lim.stored) \o Submitted, LocalLimit))
           /\ Len(reports) = Len(KeepLast(Earlier(lim.storedReports) \o Submitted, ReportLimit))
           /\ Range(reports) = Range(KeepLast(Earlier(lim.storedReports) \o Submitted, ReportLimit))

\* C29: the scanner handles one scan at a time and ends each: an event that
\* arrives while not scanning or while processing changes nothing; a scan
\* that parseQRCode accepted has been logged through the tracking service and
\* the app is at FittingDetails; and processing is false when the handler has
\* finished.
ScanHandled ==
  /\ [][(scanEvents' # scanEvents /\ (~scanning \/ processing))
          => UNCHANGED <<scanning, processing, alert, route>>]_vars
  /\ [](scanCall.pc = "done" /\ scanCall.parsed => scanCall.logged /\ route = "FittingDetails")
  /\ [][(scanCall.pc = "parse" /\ scanCall'.pc = "done") => ~processing']_vars

\* C30: when clearTrackingData returns success no tracking entry remains:
\* the master list key and every tracking_<id> key are absent, the entry cache
\* and the sync queue are empty, and getAllTrackingEntries gives the empty
\* list, also with captures running beside the clear.
ClearLeavesNothing ==
  [][(clr.pc = "finish" /\ clr'.pc = "done" /\ clr'.success)
       => /\ ~storeMaster'.present
          /\ storeEntries' = {}
          /\ trackingCache' = {}
          /\ Queue' = <<>>
          /\ getAllTrackingEntries' = <<>>]_vars

====
